---- MODULE Spec2Model ----
(***************************************************************************)
(* Game Session Engine of the mahjong score counter: the room lifecycle    *)
(* (server/src/services/roomManager.ts), the socket gateway that calls it  *)
(* (server/src/index.ts) and the scoring ledger                            *)
(* (server/src/utils/mahjongCalculator.ts).                                *)
(*                                                                         *)
(* Every socket handler is an async function.  It runs on the single       *)
(* JavaScript thread until it reaches an `await` on a storage call and is  *)
(* resumed later; other handlers run in between.  One action of this       *)
(* module is one such run: it resumes a handler with the result of the     *)
(* storage call it was waiting for, executes the synchronous code that     *)
(* follows and issues the next storage call (storage calls are atomic:     *)
(* SQLite executes one statement at a time).  h[t].pc names the storage    *)
(* call the handler has issued last.                                       *)
(***************************************************************************)
EXTENDS Integers, Sequences, FiniteSets, TLC

\* ------------------------------------------------------------------ bounds
NumUsers == 5
NumConns == 6
NumRooms == 2

\* ---------------------------------------------------------------- constants
\* roomManager.ts:443  if (room.players.length >= 4)
MaxSeats == 4

Users == 1..NumUsers
Conns == 1..NumConns
RoomIds == 1..NumRooms

\* users.currentRoomId = NULL, socket.roomId = undefined
NoRoomId == 0
\* no target user / no event in an intent
NoUser == 0

\* The permanent user a socket belongs to: a client sends its own userId with
\* every intent.  Sockets beyond NumUsers are further sockets of the first
\* users (a second device, or the socket opened after a reconnect).
UserOf(c) == ((c - 1) % NumUsers) + 1

\* getRoomFromDb resolves null: no row with this roomId
NoRoom == [absent |-> TRUE]
\* no row in game_archives with this id
NoArchive == [absent |-> TRUE]
\* a handler holds no pending game state
NoGs == [absent |-> TRUE]
NoEvent == [absent |-> TRUE]

\* ------------------------------------------------------------- sequences
Range(s) == {s[i] : i \in 1..Len(s)}

\* Array.prototype.findIndex, 1-based, 0 when absent
RECURSIVE FirstIdxFrom(_, _, _)
FirstIdxFrom(s, P(_), i) ==
  IF i > Len(s) THEN 0
  ELSE IF P(s[i]) THEN i
  ELSE FirstIdxFrom(s, P, i + 1)

FirstIdx(s, P(_)) == FirstIdxFrom(s, P, 1)

\* ------------------------------------------------------------ game state
DefaultSettings == [maxFan |-> 4, callTransfer |-> TRUE, pricePerFan |-> 1]

getDefaultGameState ==
  [players |-> <<>>,
   currentRoundEvents |-> <<>>,
   roundHistory |-> <<>>,
   currentRound |-> 1,
   settings |-> DefaultSettings,
   isGameFinished |-> FALSE,
   settlementResult |-> <<>>]

GANG_SCORE_MAP(gangType) ==
  CASE gangType = "an_gang" -> 2
    [] gangType = "ba_gang" -> 1
    [] gangType = "dian_gang" -> 2
    [] OTHER -> 0

calculateGangScore(gangType) == GANG_SCORE_MAP(gangType)

applyGangEvent(event, player) ==
  IF event.gangType = "none" THEN player
  ELSE IF player.id \in Range(event.gangTargetIds)
       THEN [player EXCEPT !.currentRoundScore = @ - calculateGangScore(event.gangType)]
       ELSE player

\* event.score / (event.loserIds?.length || 1).  The code divides floating
\* point numbers; the quotient here is the integer one, which is the same
\* number whenever the number of losers divides the score.
ScorePerPlayer(event) ==
  event.score \div (IF Len(event.loserIds) = 0 THEN 1 ELSE Len(event.loserIds))

\* the application that books the winner's gain on the total
applyEventToPlayerOnTotal(event, player) ==
  IF player.id = event.winnerId
  THEN [player EXCEPT !.totalScore = @ + event.score]
  ELSE player

applyEventToPlayer(event, player) ==
  CASE event.type = "hu_pai" ->
         IF player.id = event.winnerId
         THEN [player EXCEPT !.currentRoundScore = @ + event.score]
         ELSE IF player.id \in Range(event.loserIds)
              THEN [player EXCEPT !.currentRoundScore = @ - ScorePerPlayer(event)]
              ELSE player
    [] event.type = "dian_pao_hu" ->
         IF player.id = event.winnerId
         THEN [player EXCEPT !.currentRoundScore = @ + event.score]
         ELSE IF player.id \in Range(event.loserIds)
              THEN [player EXCEPT !.currentRoundScore = @ - event.score]
              ELSE player
    [] event.type = "gang" ->
         IF player.id = event.winnerId
         THEN [player EXCEPT !.currentRoundScore = @ + event.score]
         ELSE applyGangEvent(event, player)
    [] OTHER -> player

applyEventToPlayers(event, players) ==
  [i \in 1..Len(players) |-> applyEventToPlayer(event, players[i])]

\* the settlement that leaves the round scores in place
settleCurrentRoundKeepScore(players) ==
  [i \in 1..Len(players) |->
     [players[i] EXCEPT !.totalScore = @ + players[i].currentRoundScore]]

settleCurrentRound(players) ==
  [i \in 1..Len(players) |->
     [players[i] EXCEPT !.totalScore = @ + players[i].currentRoundScore,
                        !.currentRoundScore = 0]]

\* ---------------------------------------------------------- event scores
\* the fan table with a discount for the small win
FAN_SCORE_MAP_Discount(fanType) ==
  CASE fanType = "XIAO_HU" -> 0 - 1
    [] fanType = "DA_DUI_ZI" -> 1
    [] fanType = "JIN_GOU_DIAO" -> 2
    [] fanType = "XIAO_QI_DUI" -> 2
    [] fanType = "LONG_QI_DUI" -> 3
    [] fanType = "QING_YI_SE" -> 2
    [] fanType = "GANG_SHANG_HUA" -> 2
    [] fanType = "GANG_SHANG_PAO" -> 1
    [] fanType = "HAI_DI_LAO" -> 1

FAN_SCORE_MAP(fanType) ==
  CASE fanType = "XIAO_HU" -> 0
    [] fanType = "DA_DUI_ZI" -> 1
    [] fanType = "JIN_GOU_DIAO" -> 2
    [] fanType = "XIAO_QI_DUI" -> 2
    [] fanType = "LONG_QI_DUI" -> 3
    [] fanType = "QING_YI_SE" -> 2
    [] fanType = "GANG_SHANG_HUA" -> 2
    [] fanType = "GANG_SHANG_PAO" -> 1
    [] fanType = "HAI_DI_LAO" -> 1

calculateScoreFromFan(fanCount) == IF fanCount = 0 THEN 1 ELSE 2 ^ fanCount

\* fanTypes.reduce((sum, fanType) => sum + FAN_SCORE_MAP[fanType], 0) + gangCount
RECURSIVE calculateTotalFan(_, _)
calculateTotalFan(fanTypes, gangCount) ==
  IF fanTypes = <<>> THEN gangCount
  ELSE FAN_SCORE_MAP(Head(fanTypes)) + calculateTotalFan(Tail(fanTypes), gangCount)

\* the self-draw score without the fan cap
calculateZiMoScoreUncapped(fanTypes, gangCount, settings, activePlayers) ==
  (calculateScoreFromFan(calculateTotalFan(fanTypes, gangCount)) + 1) * (activePlayers - 1)

calculateZiMoScore(fanTypes, gangCount, settings, activePlayers) ==
  LET totalFan == calculateTotalFan(fanTypes, gangCount)
      capped == IF settings.maxFan > 0 /\ totalFan > settings.maxFan
                THEN settings.maxFan ELSE totalFan
  IN (calculateScoreFromFan(capped) + 1) * (activePlayers - 1)

\* the discard score with the self-draw bonus
calculateDianPaoScoreWithBonus(fanTypes, gangCount, settings) ==
  LET totalFan == calculateTotalFan(fanTypes, gangCount)
      capped == IF settings.maxFan > 0 /\ totalFan > settings.maxFan
                THEN settings.maxFan ELSE totalFan
  IN calculateScoreFromFan(capped) + 1

calculateDianPaoScore(fanTypes, gangCount, settings) ==
  LET totalFan == calculateTotalFan(fanTypes, gangCount)
      capped == IF settings.maxFan > 0 /\ totalFan > settings.maxFan
                THEN settings.maxFan ELSE totalFan
  IN calculateScoreFromFan(capped)

\* The constructors.  generateUniqueId numbers the events of a client: id is
\* the counter value it returns.  fanTypes, gangCount, timestamp and
\* description are stored in the event and read by no computation; they are
\* left out.  An event without loserIds or gangTargetIds has the empty list
\* (`?.includes` and `= []` in the code), one without gangType has "none".
WithoutId(ids, id) ==
  LET Keep(x) == x # id IN SelectSeq(ids, Keep)

\* the self-draw event scored for one player more than the others present
createZiMoEventOneMore(id, winnerId, activePlayers, fanTypes, gangCount, settings) ==
  [id |-> id, type |-> "hu_pai", winnerId |-> winnerId,
   loserIds |-> WithoutId(activePlayers, winnerId),
   gangType |-> "none", gangTargetIds |-> <<>>,
   fanCount |-> calculateTotalFan(fanTypes, gangCount),
   score |-> calculateZiMoScore(fanTypes, gangCount, settings, Len(activePlayers) + 1)]

createZiMoEvent(id, winnerId, activePlayers, fanTypes, gangCount, settings) ==
  [id |-> id, type |-> "hu_pai", winnerId |-> winnerId,
   loserIds |-> WithoutId(activePlayers, winnerId),
   gangType |-> "none", gangTargetIds |-> <<>>,
   fanCount |-> calculateTotalFan(fanTypes, gangCount),
   score |-> calculateZiMoScore(fanTypes, gangCount, settings, Len(activePlayers))]

createDianPaoEvent(id, winnerId, dianPaoPlayerId, fanTypes, gangCount, settings) ==
  [id |-> id, type |-> "dian_pao_hu", winnerId |-> winnerId,
   loserIds |-> <<dianPaoPlayerId>>,
   gangType |-> "none", gangTargetIds |-> <<>>,
   fanCount |-> calculateTotalFan(fanTypes, gangCount),
   score |-> calculateDianPaoScore(fanTypes, gangCount, settings)]

createGangEvent(id, winnerId, gangType, settings, gangTargetIds) ==
  [id |-> id, type |-> "gang", winnerId |-> winnerId,
   loserIds |-> <<>>,
   gangType |-> gangType, gangTargetIds |-> gangTargetIds,
   fanCount |-> 0,
   score |-> calculateGangScore(gangType) * Len(gangTargetIds)]

reverseApplyGangEvent(event, player) ==
  IF event.gangType = "none" THEN player
  ELSE IF player.id \in Range(event.gangTargetIds)
       THEN [player EXCEPT !.currentRoundScore = @ + calculateGangScore(event.gangType)]
       ELSE player

reverseApplyEventToPlayer(event, player) ==
  CASE event.type = "hu_pai" ->
         IF player.id = event.winnerId
         THEN [player EXCEPT !.currentRoundScore = @ - event.score]
         ELSE IF player.id \in Range(event.loserIds)
              THEN [player EXCEPT !.currentRoundScore = @ + ScorePerPlayer(event)]
              ELSE player
    [] event.type = "dian_pao_hu" ->
         IF player.id = event.winnerId
         THEN [player EXCEPT !.currentRoundScore = @ - event.score]
         ELSE IF player.id \in Range(event.loserIds)
              THEN [player EXCEPT !.currentRoundScore = @ + event.score]
              ELSE player
    [] event.type = "gang" ->
         IF player.id = event.winnerId
         THEN [player EXCEPT !.currentRoundScore = @ - event.score]
         ELSE reverseApplyGangEvent(event, player)
    [] OTHER -> player

\* the reversal that gives nothing back to the targets of a gang
reverseApplyEventToPlayersNoTargets(event, players) ==
  [i \in 1..Len(players) |->
     IF event.type = "gang" /\ players[i].id # event.winnerId
     THEN players[i]
     ELSE reverseApplyEventToPlayer(event, players[i])]

reverseApplyEventToPlayers(event, players) ==
  [i \in 1..Len(players) |-> reverseApplyEventToPlayer(event, players[i])]

\* An instruction of the result is the string
\* `${loser.name} -> ${winner.name} : ${pay.toFixed(2)} 元`; the record
\* [from, to, pay] keeps its three parts, a player's id standing for its name.
\* calculateServerSettlement: one loser against the winners in list order.
\* Scores and pricePerFan are integers here, so `money <= 0.001` is
\* `money <= 0` and `money > 0.001` is `money > 0`.
\* the payment that is the whole debt of the loser
MinFirst(a, b) == a

Min(a, b) == IF a <= b THEN a ELSE b

RECURSIVE PayWinners(_, _, _, _)
PayWinners(loser, winners, j, result) ==
  IF j > Len(winners) \/ loser.money <= 0
  THEN [loser |-> loser, winners |-> winners, result |-> result]
  ELSE IF winners[j].money > 0
       THEN LET pay == Min(loser.money, winners[j].money)
            IN PayWinners([loser EXCEPT !.money = @ - pay],
                          [winners EXCEPT ![j].money = @ - pay],
                          j + 1,
                          Append(result, [from |-> loser.name,
                                          to |-> winners[j].name,
                                          pay |-> pay]))
       ELSE PayWinners(loser, winners, j + 1, result)

RECURSIVE PayLosers(_, _, _, _)
PayLosers(losers, winners, i, result) ==
  IF i > Len(losers) THEN result
  ELSE LET r == PayWinners(losers[i], winners, 1, result)
       IN PayLosers(losers, r.winners, i + 1, r.result)

IsWinner(p) == p.totalScore > 0
IsLoser(p) == p.totalScore < 0

\* the netting of the scores, the price left out
calculateServerSettlementUnpriced(players, pricePerFan) ==
  IF \A i \in 1..Len(players) : players[i].totalScore = 0 THEN <<>>
  ELSE LET ws == SelectSeq(players, IsWinner)
           ls == SelectSeq(players, IsLoser)
           winners == [i \in 1..Len(ws) |->
                         [name |-> ws[i].id, money |-> ws[i].totalScore]]
           losers == [i \in 1..Len(ls) |->
                        [name |-> ls[i].id, money |-> 0 - ls[i].totalScore]]
       IN PayLosers(losers, winners, 1, <<>>)

calculateServerSettlement(players, pricePerFan) ==
  IF \A i \in 1..Len(players) : players[i].totalScore = 0 THEN <<>>
  ELSE LET ws == SelectSeq(players, IsWinner)
           ls == SelectSeq(players, IsLoser)
           winners == [i \in 1..Len(ws) |->
                         [name |-> ws[i].id, money |-> ws[i].totalScore * pricePerFan]]
           losers == [i \in 1..Len(ls) |->
                        [name |-> ls[i].id, money |-> (-ls[i].totalScore) * pricePerFan]]
       IN PayLosers(losers, winners, 1, <<>>)

\* ------------------------------------------------------------------ rooms
\* A seat (LobbyPlayer): id is the socket id, userId the permanent user.
Seat(c, u) == [id |-> c, userId |-> u, isConnected |-> TRUE]

\* createRoom builds: the host is the only seat, a fresh game state
NewRoom(id, c, u) ==
  [id |-> id,
   hostUserId |-> u,
   players |-> <<Seat(c, u)>>,
   gameState |-> getDefaultGameState]

HasUser(room, u) == \E i \in 1..Len(room.players) : room.players[i].userId = u
HasConn(room, c) == \E i \in 1..Len(room.players) : room.players[i].id = c

\* room.players.find(p => p.id === socket.id), as an index (0: undefined)
SeatIdxOfConn(room, c) ==
  LET P(p) == p.id = c IN FirstIdx(room.players, P)

SeatIdxOfUser(room, u) ==
  LET P(p) == p.userId = u IN FirstIdx(room.players, P)

\* joinRoom, the reconnect branch: every seat of this user gets the new socket
ReconnectedPlayers(players, u, c) ==
  [i \in 1..Len(players) |->
     IF players[i].userId = u
     THEN [players[i] EXCEPT !.id = c, !.isConnected = TRUE]
     ELSE players[i]]

\* a started-game test that looks at the closed rounds only
HasGameStartedClosedRounds(room) == Len(room.gameState.roundHistory) > 0

\* hasGameStarted of endGameAndDeleteRoom, isGameStarted of getLobbyInfo
HasGameStarted(room) ==
  Len(room.gameState.currentRoundEvents) > 0 \/ Len(room.gameState.roundHistory) > 0

\* ------------------------------------------------------------------ state
VARIABLES
  rooms,     \* table rooms: room id -> Room, or NoRoom
  users,     \* table users: user id -> currentRoomId (NoRoomId: NULL)
  archives,  \* table game_archives: id -> GameArchive, or NoArchive
  calls,     \* per room id, the storage writes issued so far
  sockRoom,  \* socket.roomId of every socket (NoRoomId: undefined)
  alive,     \* the socket is connected
  h,         \* the handlers in flight, one record per task
  script,    \* what each client is still going to send, in order
  local,     \* the local-mode game state of the client application, or NoGs
  written    \* per room id, every room saveRoomToDb has stored under it so far

vars == <<rooms, users, archives, calls, sockRoom, alive, h, script, local, written>>

\* A socket runs one intent handler at a time (its client waits for the
\* answer) and, once, its disconnect handler, which can overlap the former.
Tasks == Conns \X {"req", "disc"}
Req(c) == <<c, "req">>
Disc(c) == <<c, "disc">>
ConnOf(t) == t[1]

\* room: the room the handler has read last; gs: the game state it is about
\* to save; res: what it answered; mark: what held of the room when the
\* intent was dispatched (joinRoom: a disband was in flight; leaveRoom: the
\* host leaves and the next seat is disconnected), kept for the properties.
Idle ==
  [op |-> "none", pc |-> "idle", rid |-> NoRoomId, tgt |-> NoUser,
   ev |-> NoEvent, room |-> NoRoom, gs |-> NoGs, res |-> "none", mark |-> FALSE]

Intent(op, rid, tgt, ev) == [op |-> op, rid |-> rid, tgt |-> tgt, ev |-> ev]

Free(t) == h[t].pc \in {"idle", "done"}

\* The handler of task t is suspended at the await named pc.
At(t, pc) == h[t].pc = pc

\* The next intent of the client behind socket c is op.
Sends(c, op) ==
  /\ alive[c]
  /\ Free(Req(c))
  /\ script[c] # <<>>
  /\ Head(script[c]).op = op

\* A disband has read the room and has not yet deleted it.
DisbandInFlight(rid) ==
  \E t \in Tasks :
    /\ h[t].pc \in {"end_read", "end_archive", "end_users"}
    /\ h[t].rid = rid
    /\ h[t].room # NoRoom

\* The handler starts: it runs to its first await.
Begin(c, rec) ==
  /\ h' = [h EXCEPT ![Req(c)] = rec]
  /\ script' = [script EXCEPT ![c] = Tail(@)]

\* The handler goes on to its next await.
Goto(t, pc, room) == h' = [h EXCEPT ![t].pc = pc, ![t].room = room]

\* The handler returns; res is what it answered.
Finish(t, res) ==
  h' = [h EXCEPT ![t] = [Idle EXCEPT !.pc = "done", !.op = h[t].op,
                                     !.rid = h[t].rid, !.res = res,
                                     !.mark = h[t].mark]]

\* What the socket that sent the intent `op` is pushed by a handler that
\* answered `res`.  A handler that got null from the room manager emits
\* nothing ("none"); leaveRoom takes its socket out of the room before it
\* broadcasts to the room, and emits nothing else; endGame emits nothing
\* after endGameAndDeleteRoom has returned; the other handlers broadcast the
\* room they saved to the room of their socket, or emit the error to it.
\* authenticate answers through its callback.
Pushed(op, res) ==
  CASE res = "none" -> "none"
    [] op = "leaveRoom" -> "none"
    [] op = "endGame" /\ res = "disbanded" -> "none"
    [] op = "authenticate" -> "callback"
    [] op = "disconnect" -> IF res = "ok" THEN "roomStateUpdate" ELSE "roomEnded"
    [] res = "ok" -> "roomStateUpdate"
    [] OTHER -> "error"

\* The room that the handler t emits as roomStateUpdate in its next step,
\* NoRoom when that step emits none: the room returned by the room manager
\* after its last await (createRoom emits it to its socket, the others to
\* the room); leaveRoom broadcasts when seats are left; the disconnect
\* handler whose socket has no seat broadcasts the room it has read.
Broadcast(t) ==
  CASE h[t].pc \in {"cr_user", "jn_resave", "jn_user", "ugs_save", "kk_user",
                    "dc_save", "au_save"} -> h[t].room
    [] h[t].pc = "lv_user" ->
         IF Len(h[t].room.players) > 0 THEN h[t].room ELSE NoRoom
    [] h[t].pc = "dc_read" ->
         IF h[t].room # NoRoom /\ ~HasConn(h[t].room, ConnOf(t))
         THEN h[t].room ELSE NoRoom
    [] OTHER -> NoRoom

\* storage writes
\* saveRoomToDb resolving before the row is written
SaveRoomNotAwaited(rid, room) ==
  /\ rooms' = rooms
  /\ written' = written

SaveRoom(rid, room) ==
  /\ rooms' = [rooms EXCEPT ![rid] = room]
  /\ written' = [written EXCEPT ![rid] = @ \cup {room}]

\* deleteRoomFromDb called, the row left in place
DeleteRoomSkipped(rid) ==
  /\ rooms' = rooms
  /\ written' = written
  /\ calls' = [calls EXCEPT ![rid].delete = @ + 1]

DeleteRoom(rid) ==
  /\ rooms' = [rooms EXCEPT ![rid] = NoRoom]
  /\ written' = written
  /\ calls' = [calls EXCEPT ![rid].delete = @ + 1]

UpdateUserRoom(u, rid) == users' = [users EXCEPT ![u] = rid]

\* ------------------------------------------------------------ createRoom
\* generateRoomId: a random id, then await getRoomFromDb(id)
CreateRoomStart(c) ==
  /\ Sends(c, "createRoom")
  /\ \E id \in RoomIds :
       Begin(c, [Idle EXCEPT !.op = "createRoom", !.pc = "cr_gen",
                             !.rid = id, !.room = rooms[id]])
  /\ UNCHANGED <<rooms, users, archives, calls, sockRoom, alive, local, written>>

\* the id is taken: draw again; it is free: await saveRoomToDb(id, newRoom)
CreateRoomGen(t) ==
  /\ At(t, "cr_gen")
  /\ IF h[t].room # NoRoom
     THEN /\ \E id \in RoomIds :
               h' = [h EXCEPT ![t].rid = id, ![t].room = rooms[id]]
          /\ UNCHANGED <<rooms, written>>
     ELSE LET room == NewRoom(h[t].rid, ConnOf(t), UserOf(ConnOf(t)))
          IN /\ SaveRoom(h[t].rid, room)
             /\ Goto(t, "cr_save", room)
  /\ UNCHANGED <<users, archives, calls, sockRoom, alive, script, local>>

\* await updateUserRoom(hostPlayer.userId, id)
CreateRoomSaved(t) ==
  /\ At(t, "cr_save")
  /\ UpdateUserRoom(UserOf(ConnOf(t)), h[t].rid)
  /\ Goto(t, "cr_user", h[t].room)
  /\ UNCHANGED <<rooms, archives, calls, sockRoom, alive, script, local, written>>

\* socket.roomId = room.id; socket.emit('roomStateUpdate', room)
CreateRoomDone(t) ==
  /\ At(t, "cr_user")
  /\ sockRoom' = [sockRoom EXCEPT ![ConnOf(t)] = h[t].rid]
  /\ Finish(t, "ok")
  /\ UNCHANGED <<rooms, users, archives, calls, alive, script, local, written>>

\* -------------------------------------------------------------- joinRoom
\* socket.on('joinRoom'): await getRoom(roomId)
JoinRoomStart(c) ==
  /\ Sends(c, "joinRoom")
  /\ LET rid == Head(script[c]).rid
     IN Begin(c, [Idle EXCEPT !.op = "joinRoom", !.pc = "jn_check", !.rid = rid,
                              !.room = rooms[rid], !.mark = DisbandInFlight(rid)])
  /\ UNCHANGED <<rooms, users, archives, calls, sockRoom, alive, local, written>>

\* no room: emit error; else joinRoom(): await getRoom(id)
JoinRoomCheck(t) ==
  /\ At(t, "jn_check")
  /\ IF h[t].room = NoRoom
     THEN Finish(t, "RoomNotFound")
     ELSE Goto(t, "jn_read", rooms[h[t].rid])
  /\ UNCHANGED <<rooms, users, archives, calls, sockRoom, alive, script, local, written>>

\* joinRoom without its reconnect branch: a seated user is seated again
JoinRoomResultNoReconnect(room, c, u) ==
  IF room = NoRoom THEN [error |-> "RoomNotFound", pc |-> "done", room |-> NoRoom]
  ELSE IF Len(room.players) >= MaxSeats
  THEN [error |-> "RoomFull", pc |-> "done", room |-> NoRoom]
  ELSE [error |-> "none", pc |-> "jn_save",
        room |-> [room EXCEPT !.players = Append(room.players, Seat(c, u))]]

\* joinRoom with the capacity check ahead of the reconnect branch
JoinRoomResultFullFirst(room, c, u) ==
  IF room = NoRoom THEN [error |-> "RoomNotFound", pc |-> "done", room |-> NoRoom]
  ELSE IF Len(room.players) >= MaxSeats
  THEN [error |-> "RoomFull", pc |-> "done", room |-> NoRoom]
  ELSE IF HasUser(room, u)
  THEN [error |-> "none", pc |-> "jn_resave",
        room |-> [room EXCEPT !.players = ReconnectedPlayers(room.players, u, c)]]
  ELSE [error |-> "none", pc |-> "jn_save",
        room |-> [room EXCEPT !.players = Append(room.players, Seat(c, u))]]

\* joinRoom with the capacity check off by one (> for >=)
JoinRoomResultOffByOne(room, c, u) ==
  IF room = NoRoom THEN [error |-> "RoomNotFound", pc |-> "done", room |-> NoRoom]
  ELSE IF HasUser(room, u)
  THEN [error |-> "none", pc |-> "jn_resave",
        room |-> [room EXCEPT !.players = ReconnectedPlayers(room.players, u, c)]]
  ELSE IF Len(room.players) > MaxSeats
  THEN [error |-> "RoomFull", pc |-> "done", room |-> NoRoom]
  ELSE [error |-> "none", pc |-> "jn_save",
        room |-> [room EXCEPT !.players = Append(room.players, Seat(c, u))]]

\* What joinRoom does with the room it has read: an error, or the room it saves
JoinRoomResult(room, c, u) ==
  IF room = NoRoom THEN [error |-> "RoomNotFound", pc |-> "done", room |-> NoRoom]
  ELSE IF HasUser(room, u)
  THEN [error |-> "none", pc |-> "jn_resave",
        room |-> [room EXCEPT !.players = ReconnectedPlayers(room.players, u, c)]]
  ELSE IF Len(room.players) >= MaxSeats
  THEN [error |-> "RoomFull", pc |-> "done", room |-> NoRoom]
  ELSE [error |-> "none", pc |-> "jn_save",
        room |-> [room EXCEPT !.players = Append(room.players, Seat(c, u))]]

JoinRoomRead(t) ==
  /\ At(t, "jn_read")
  /\ LET r == JoinRoomResult(h[t].room, ConnOf(t), UserOf(ConnOf(t)))
     IN IF r.error # "none"
        THEN /\ Finish(t, r.error)
             /\ UNCHANGED <<rooms, written>>
        ELSE /\ SaveRoom(h[t].rid, r.room)
             /\ Goto(t, r.pc, r.room)
  /\ UNCHANGED <<users, archives, calls, sockRoom, alive, script, local>>

\* a new seat: await updateUserRoom(player.userId, id)
JoinRoomSaved(t) ==
  /\ At(t, "jn_save")
  /\ UpdateUserRoom(UserOf(ConnOf(t)), h[t].rid)
  /\ Goto(t, "jn_user", h[t].room)
  /\ UNCHANGED <<rooms, archives, calls, sockRoom, alive, script, local, written>>

\* socket.roomId = roomId; io.to(roomId).emit('roomStateUpdate', result.room)
JoinRoomDone(t) ==
  /\ h[t].pc \in {"jn_resave", "jn_user"}
  /\ sockRoom' = [sockRoom EXCEPT ![ConnOf(t)] = h[t].rid]
  /\ Finish(t, "ok")
  /\ UNCHANGED <<rooms, users, archives, calls, alive, script, local, written>>

\* ------------------------------------------------------------- leaveRoom
\* the roster without the seats of socket c
WithoutConn(players, c) ==
  LET Keep(p) == p.id # c IN SelectSeq(players, Keep)

\* Socket c holds the host seat of the room, and the seat that follows it in
\* what remains of the roster is disconnected.
HostLeavesToDisconnected(room, c) ==
  /\ room # NoRoom
  /\ HasConn(room, c)
  /\ room.players[SeatIdxOfConn(room, c)].userId = room.hostUserId
  /\ WithoutConn(room.players, c) # <<>>
  /\ ~WithoutConn(room.players, c)[1].isConnected

\* leaveRoom(socket.id, roomId): await getRoom(id)
LeaveRoomStart(c) ==
  /\ Sends(c, "leaveRoom")
  /\ LET rid == Head(script[c]).rid
     IN Begin(c, [Idle EXCEPT !.op = "leaveRoom", !.pc = "lv_read", !.rid = rid,
                              !.room = rooms[rid],
                              !.mark = HostLeavesToDisconnected(rooms[rid], c)])
  /\ UNCHANGED <<rooms, users, archives, calls, sockRoom, alive, local, written>>

\* leaveRoom without the host transfer
LeaveRoomResultKeepHost(room, c) ==
  [room EXCEPT !.players = WithoutConn(room.players, c)]

\* the room leaveRoom saves when seats remain: the first remaining seat
\* becomes host when the leaver was host
LeaveRoomResult(room, c) ==
  LET leaving == room.players[SeatIdxOfConn(room, c)]
      updatedPlayers == WithoutConn(room.players, c)
  IN [room EXCEPT !.players = updatedPlayers,
                  !.hostUserId = IF room.hostUserId = leaving.userId
                                    /\ Len(updatedPlayers) > 0
                                 THEN updatedPlayers[1].userId
                                 ELSE @]

LeaveRoomRead(t) ==
  /\ At(t, "lv_read")
  /\ LET room == h[t].room
         c == ConnOf(t)
     IN IF room = NoRoom \/ ~HasConn(room, c)
        THEN /\ Finish(t, "none")
             /\ UNCHANGED <<rooms, users, written>>
        ELSE LET leaving == room.players[SeatIdxOfConn(room, c)]
             IN IF Len(WithoutConn(room.players, c)) = 0
                THEN /\ UpdateUserRoom(leaving.userId, NoRoomId)
                     /\ h' = [h EXCEPT ![t].pc = "lv_lastuser"]
                     /\ UNCHANGED <<rooms, written>>
                ELSE /\ SaveRoom(h[t].rid, LeaveRoomResult(room, c))
                     /\ h' = [h EXCEPT ![t].pc = "lv_save",
                                       ![t].room = LeaveRoomResult(room, c),
                                       ![t].tgt = leaving.userId]
                     /\ UNCHANGED users
  /\ UNCHANGED <<archives, calls, sockRoom, alive, script, local>>

\* the room is empty: await deleteRoomFromDb(id)
LeaveRoomLastUser(t) ==
  /\ At(t, "lv_lastuser")
  /\ DeleteRoom(h[t].rid)
  /\ Goto(t, "lv_delete", NoRoom)
  /\ UNCHANGED <<users, archives, sockRoom, alive, script, local>>

\* seats remain: await updateUserRoom(leavingPlayer.userId, null)
LeaveRoomSaved(t) ==
  /\ At(t, "lv_save")
  /\ UpdateUserRoom(h[t].tgt, NoRoomId)
  /\ Goto(t, "lv_user", h[t].room)
  /\ UNCHANGED <<rooms, archives, calls, sockRoom, alive, script, local, written>>

\* socket.leave(roomId); socket.roomId = undefined
LeaveRoomDone(t) ==
  /\ h[t].pc \in {"lv_delete", "lv_user"}
  /\ sockRoom' = [sockRoom EXCEPT ![ConnOf(t)] = NoRoomId]
  /\ Finish(t, "ok")
  /\ UNCHANGED <<rooms, users, archives, calls, alive, script, local, written>>

\* ---------------------------------------------------- endGameAndDeleteRoom
\* archive.players: settledPlayers.filter(p => p.userId).map(...)
HasUserId(p) == "userId" \in DOMAIN p

\* finalScores.reduce((acc, s) => { acc[s.playerId] = s.score; ... }, {})
FinalScoresMap(fs) ==
  [pid \in {fs[i].playerId : i \in 1..Len(fs)} |->
     LET last == CHOOSE i \in 1..Len(fs) :
                   /\ fs[i].playerId = pid
                   /\ \A j \in (i + 1)..Len(fs) : fs[j].playerId # pid
     IN fs[last].score]

BuildArchive(room) ==
  LET settledPlayers == settleCurrentRound(room.gameState.players)
      kept == SelectSeq(settledPlayers, HasUserId)
      hist == room.gameState.roundHistory
  IN [id |-> room.id,
      hostUserId |-> room.hostUserId,
      players |-> [i \in 1..Len(kept) |->
                     [userId |-> kept[i].userId, finalScore |-> kept[i].totalScore]],
      gameHistory |-> [i \in 1..Len(hist) |->
                         [round |-> hist[i].roundNumber,
                          events |-> hist[i].events,
                          finalScores |-> FinalScoresMap(hist[i].finalScores)]],
      settings |-> room.gameState.settings]

\* Promise.all(userIds.map(uid => updateUserRoom(uid, null)))
ClearUsers(room) ==
  users' = [u \in Users |-> IF HasUser(room, u) THEN NoRoomId ELSE users[u]]

\* resumed with the room of `await getRoom(id)`.  A started game is archived
\* first (INSERT INTO game_archives: rejected when the id is already there,
\* and the rejection leaves the function); otherwise the users are cleared;
\* without a room only deleteRoomFromDb is called.
EndRead(t) ==
  /\ At(t, "end_read")
  /\ LET room == h[t].room
         rid == h[t].rid
     IN IF room = NoRoom
        THEN /\ DeleteRoom(rid)
             /\ Goto(t, "end_delete", NoRoom)
             /\ UNCHANGED <<users, archives>>
        ELSE IF HasGameStarted(room)
        THEN /\ calls' = [calls EXCEPT ![rid].archive = @ + 1]
             /\ IF archives[rid] # NoArchive
                THEN /\ Finish(t, "ArchiveRejected")
                     /\ UNCHANGED archives
                ELSE /\ archives' = [archives EXCEPT ![rid] = BuildArchive(room)]
                     /\ Goto(t, "end_archive", room)
             /\ UNCHANGED <<rooms, users, written>>
        ELSE /\ ClearUsers(room)
             /\ Goto(t, "end_users", room)
             /\ UNCHANGED <<rooms, archives, calls, written>>
  /\ UNCHANGED <<sockRoom, alive, script, local>>

\* after saveGameArchive: the currentRoomId of every seated user is cleared
EndArchived(t) ==
  /\ At(t, "end_archive")
  /\ ClearUsers(h[t].room)
  /\ Goto(t, "end_users", h[t].room)
  /\ UNCHANGED <<rooms, archives, calls, sockRoom, alive, script, local, written>>

\* await deleteRoomFromDb(id)
EndUsers(t) ==
  /\ At(t, "end_users")
  /\ DeleteRoom(h[t].rid)
  /\ Goto(t, "end_delete", NoRoom)
  /\ UNCHANGED <<users, archives, sockRoom, alive, script, local>>

\* endGameAndDeleteRoom returns to the handler that called it
EndDone(t) ==
  /\ At(t, "end_delete")
  /\ Finish(t, "disbanded")
  /\ UNCHANGED <<rooms, users, archives, calls, sockRoom, alive, script, local, written>>

\* ------------------------------------------------------------ disconnect
\* socket.on('disconnect'): handlePlayerDisconnect(socket.id, socket.roomId)
DisconnectStart(c) ==
  /\ alive[c]
  /\ script[c] # <<>>
  /\ Head(script[c]).op = "disconnect"
  /\ alive' = [alive EXCEPT ![c] = FALSE]
  /\ script' = [script EXCEPT ![c] = Tail(@)]
  /\ h' = [h EXCEPT ![Disc(c)] =
             IF sockRoom[c] = NoRoomId
             THEN [Idle EXCEPT !.op = "disconnect", !.pc = "done"]
             ELSE [Idle EXCEPT !.op = "disconnect", !.pc = "dc_read",
                               !.rid = sockRoom[c], !.room = rooms[sockRoom[c]]]]
  /\ UNCHANGED <<rooms, users, archives, calls, sockRoom, local, written>>

\* handlePlayerDisconnect dropping the seat instead of marking it
MarkDisconnectedRemoves(players, c) ==
  LET Keep(p) == p.id # c IN SelectSeq(players, Keep)

MarkDisconnected(players, c) ==
  [i \in 1..Len(players) |->
     IF players[i].id = c THEN [players[i] EXCEPT !.isConnected = FALSE]
     ELSE players[i]]

AllDisconnected(players) == \A i \in 1..Len(players) : ~players[i].isConnected

\* handlePlayerDisconnect electing the first other seat, connected or not
DisconnectResultFirstSeat(room, c) ==
  LET leaving == room.players[SeatIdxOfConn(room, c)]
      updatedPlayers == MarkDisconnected(room.players, c)
      Other(p) == p.userId # leaving.userId
      newHost == FirstIdx(updatedPlayers, Other)
  IN [room EXCEPT !.players = updatedPlayers,
                  !.hostUserId = IF leaving.userId = room.hostUserId /\ newHost # 0
                                 THEN updatedPlayers[newHost].userId
                                 ELSE @]

\* handlePlayerDisconnect without the host transfer
DisconnectResultKeepHost(room, c) ==
  [room EXCEPT !.players = MarkDisconnected(room.players, c)]

\* the room handlePlayerDisconnect saves when some seat stays connected
DisconnectResult(room, c) ==
  LET leaving == room.players[SeatIdxOfConn(room, c)]
      updatedPlayers == MarkDisconnected(room.players, c)
      Other(p) == p.userId # leaving.userId /\ p.isConnected
      newHost == FirstIdx(updatedPlayers, Other)
  IN [room EXCEPT !.players = updatedPlayers,
                  !.hostUserId = IF leaving.userId = room.hostUserId /\ newHost # 0
                                 THEN updatedPlayers[newHost].userId
                                 ELSE @]

DisconnectRead(t) ==
  /\ At(t, "dc_read")
  /\ LET room == h[t].room
         c == ConnOf(t)
     IN IF room = NoRoom
        THEN /\ Finish(t, "roomEnded")
             /\ UNCHANGED <<rooms, written>>
        ELSE IF ~HasConn(room, c)
        THEN /\ Finish(t, "ok")
             /\ UNCHANGED <<rooms, written>>
        ELSE IF AllDisconnected(MarkDisconnected(room.players, c))
        THEN /\ Goto(t, "end_read", rooms[h[t].rid])
             /\ UNCHANGED <<rooms, written>>
        ELSE /\ SaveRoom(h[t].rid, DisconnectResult(room, c))
             /\ Goto(t, "dc_save", DisconnectResult(room, c))
  /\ UNCHANGED <<users, archives, calls, sockRoom, alive, script, local>>

\* io.to(roomId).emit('roomStateUpdate', updatedRoom)
DisconnectSaved(t) ==
  /\ At(t, "dc_save")
  /\ Finish(t, "ok")
  /\ UNCHANGED <<rooms, users, archives, calls, sockRoom, alive, script, local, written>>

\* --------------------------------------------------- host-only intents
\* the checks startGame, nextRound, endGame and settleGame make on the room
\* their handler has read
\* the host check letting every seated socket through
HostCheckAnySeat(room, c) ==
  IF room = NoRoom THEN "RoomNotFound"
  ELSE IF ~HasConn(room, c) THEN "PlayerNotFound"
  ELSE "ok"

HostCheck(room, c) ==
  IF room = NoRoom THEN "RoomNotFound"
  ELSE IF ~HasConn(room, c) THEN "PlayerNotFound"
  ELSE IF room.players[SeatIdxOfConn(room, c)].userId = room.hostUserId THEN "ok"
  ELSE "NotHost"

\* a host-only handler starts: await getRoom(roomId)
HostIntentStart(c, op, pc) ==
  /\ Sends(c, op)
  /\ LET rid == Head(script[c]).rid
     IN Begin(c, [Idle EXCEPT !.op = op, !.pc = pc, !.rid = rid,
                              !.room = rooms[rid], !.tgt = Head(script[c]).tgt])
  /\ UNCHANGED <<rooms, users, archives, calls, sockRoom, alive, local, written>>

\* the check fails: emit error; it passes: the manager function is called
\* and awaits getRoom(id)
HostIntentCheck(t, pc, next) ==
  /\ At(t, pc)
  /\ IF HostCheck(h[t].room, ConnOf(t)) = "ok"
     THEN Goto(t, next, rooms[h[t].rid])
     ELSE Finish(t, HostCheck(h[t].room, ConnOf(t)))
  /\ UNCHANGED <<rooms, users, archives, calls, sockRoom, alive, script, local, written>>

\* socket.on('endGame')
EndGameStart(c) == HostIntentStart(c, "endGame", "eg_check")
EndGameCheck(t) == HostIntentCheck(t, "eg_check", "end_read")

\* ------------------------------------------------------- updateGameState
\* resumed with the room of `await getRoom(id)`: the room is saved with the
\* pending game state, or null is returned
UgsRead(t) ==
  /\ At(t, "ugs_read")
  /\ IF h[t].room # NoRoom
     THEN LET updatedRoom == [h[t].room EXCEPT !.gameState = h[t].gs]
          IN /\ SaveRoom(h[t].rid, updatedRoom)
             /\ Goto(t, "ugs_save", updatedRoom)
     ELSE /\ Finish(t, "none")
          /\ UNCHANGED <<rooms, written>>
  /\ UNCHANGED <<users, archives, calls, sockRoom, alive, script, local>>

\* io.to(roomId).emit('roomStateUpdate', updatedRoom)
UgsSaved(t) ==
  /\ At(t, "ugs_save")
  /\ Finish(t, "ok")
  /\ UNCHANGED <<rooms, users, archives, calls, sockRoom, alive, script, local, written>>

\* ---------------------------------------------------------- addGameEvent
\* socket.on('addGameEvent'): await getRoom(roomId); no host check
AddGameEventStart(c) ==
  /\ Sends(c, "addGameEvent")
  /\ LET rid == Head(script[c]).rid
     IN Begin(c, [Idle EXCEPT !.op = "addGameEvent", !.pc = "ev_read", !.rid = rid,
                              !.room = rooms[rid], !.ev = Head(script[c]).ev])
  /\ UNCHANGED <<rooms, users, archives, calls, sockRoom, alive, local, written>>

AddedEvent(gs, event) ==
  [gs EXCEPT !.players = applyEventToPlayers(event, gs.players),
             !.currentRoundEvents = Append(gs.currentRoundEvents, event)]

\* the new game state is computed from the room read by the handler, then
\* updateGameState reads the room again
AddGameEventRead(t) ==
  /\ At(t, "ev_read")
  /\ IF h[t].room # NoRoom
     THEN h' = [h EXCEPT ![t].pc = "ugs_read",
                         ![t].gs = AddedEvent(h[t].room.gameState, h[t].ev),
                         ![t].room = rooms[h[t].rid]]
     ELSE Finish(t, "none")
  /\ UNCHANGED <<rooms, users, archives, calls, sockRoom, alive, script, local, written>>

\* ------------------------------------------------------------- startGame
StartedGame(room) ==
  [room.gameState EXCEPT
     !.players = [i \in 1..Len(room.players) |->
                    [id |-> room.players[i].userId,
                     totalScore |-> 0,
                     currentRoundScore |-> 0]]]

StartGameStart(c) == HostIntentStart(c, "startGame", "sg_check")

\* the host check and the new game state use the room read by the handler
StartGameCheck(t) ==
  /\ At(t, "sg_check")
  /\ IF HostCheck(h[t].room, ConnOf(t)) = "ok"
     THEN h' = [h EXCEPT ![t].pc = "ugs_read",
                         ![t].gs = StartedGame(h[t].room),
                         ![t].room = rooms[h[t].rid]]
     ELSE Finish(t, HostCheck(h[t].room, ConnOf(t)))
  /\ UNCHANGED <<rooms, users, archives, calls, sockRoom, alive, script, local, written>>

\* ------------------------------------------------------------- nextRound
\* goToNextRound closing a round without events like any other round
goToNextRoundAlwaysRecord(gs) ==
  [gs EXCEPT
     !.players = settleCurrentRound(gs.players),
     !.currentRoundEvents = <<>>,
     !.roundHistory =
        Append(@, [roundNumber |-> gs.currentRound,
                   events |-> gs.currentRoundEvents,
                   finalScores |->
                     [i \in 1..Len(gs.players) |->
                        [playerId |-> gs.players[i].id,
                         score |-> gs.players[i].currentRoundScore]]]),
     !.currentRound = @ + 1]

goToNextRound(gs) ==
  IF Len(gs.currentRoundEvents) = 0
  THEN [gs EXCEPT !.currentRound = @ + 1]
  ELSE [gs EXCEPT
          !.players = settleCurrentRound(gs.players),
          !.currentRoundEvents = <<>>,
          !.roundHistory =
             Append(@, [roundNumber |-> gs.currentRound,
                        events |-> gs.currentRoundEvents,
                        finalScores |->
                          [i \in 1..Len(gs.players) |->
                             [playerId |-> gs.players[i].id,
                              score |-> gs.players[i].currentRoundScore]]]),
          !.currentRound = @ + 1]

NextRoundStart(c) == HostIntentStart(c, "nextRound", "nr_check")
NextRoundCheck(t) == HostIntentCheck(t, "nr_check", "nr_read")

\* goToNextRound resumed with its room; updateGameState reads the room again
NextRoundRead(t) ==
  /\ At(t, "nr_read")
  /\ IF h[t].room # NoRoom
     THEN h' = [h EXCEPT ![t].pc = "ugs_read",
                         ![t].gs = goToNextRound(h[t].room.gameState),
                         ![t].room = rooms[h[t].rid]]
     ELSE Finish(t, "none")
  /\ UNCHANGED <<rooms, users, archives, calls, sockRoom, alive, script, local, written>>

\* ------------------------------------------------------------ settleGame
\* settleGame netting the totals of the rounds closed before
settledGameStateClosedRounds(gs) ==
  [gs EXCEPT
     !.players = settleCurrentRound(gs.players),
     !.isGameFinished = TRUE,
     !.settlementResult =
        calculateServerSettlement(gs.players, gs.settings.pricePerFan)]

settledGameState(gs) ==
  LET settledPlayers == settleCurrentRound(gs.players)
  IN [gs EXCEPT
        !.players = settledPlayers,
        !.isGameFinished = TRUE,
        !.settlementResult =
           calculateServerSettlement(settledPlayers, gs.settings.pricePerFan)]

SettleGameStart(c) == HostIntentStart(c, "settleGame", "st_check")
SettleGameCheck(t) == HostIntentCheck(t, "st_check", "st_read")

\* settleGame resumed with its room; updateGameState reads the room again
SettleGameRead(t) ==
  /\ At(t, "st_read")
  /\ IF h[t].room # NoRoom
     THEN h' = [h EXCEPT ![t].pc = "ugs_read",
                         ![t].gs = settledGameState(h[t].room.gameState),
                         ![t].room = rooms[h[t].rid]]
     ELSE Finish(t, "none")
  /\ UNCHANGED <<rooms, users, archives, calls, sockRoom, alive, script, local, written>>

\* ------------------------------------------------------------ kickPlayer
KickStart(c) == HostIntentStart(c, "kickPlayer", "kk_check")

\* !requester || requester.userId !== room.hostUserId: one error for both
KickCheck(t) ==
  /\ At(t, "kk_check")
  /\ LET e == HostCheck(h[t].room, ConnOf(t))
     IN IF e = "ok"
        THEN h' = [h EXCEPT ![t].pc = "kk_read", ![t].room = rooms[h[t].rid]]
        ELSE Finish(t, IF e = "PlayerNotFound" THEN "NotHost" ELSE e)
  /\ UNCHANGED <<rooms, users, archives, calls, sockRoom, alive, script, local, written>>

WithoutUser(players, u) ==
  LET Keep(p) == p.userId # u IN SelectSeq(players, Keep)

\* kickPlayerFromRoom without the check on the host
kickErrorNoHostCheck(room, targetUserId) ==
  IF room = NoRoom THEN "RoomNotFound"
  ELSE IF ~HasUser(room, targetUserId) THEN "PlayerNotFound"
  ELSE "none"

kickError(room, targetUserId) ==
  IF room = NoRoom THEN "RoomNotFound"
  ELSE IF room.hostUserId = targetUserId THEN "CannotKickHost"
  ELSE IF ~HasUser(room, targetUserId) THEN "PlayerNotFound"
  ELSE "none"

\* kickPlayerFromRoom resumed with its room
KickRead(t) ==
  /\ At(t, "kk_read")
  /\ IF kickError(h[t].room, h[t].tgt) = "none"
     THEN LET updatedRoom ==
                [h[t].room EXCEPT !.players = WithoutUser(@, h[t].tgt)]
          IN /\ SaveRoom(h[t].rid, updatedRoom)
             /\ Goto(t, "kk_save", updatedRoom)
     ELSE /\ Finish(t, kickError(h[t].room, h[t].tgt))
          /\ UNCHANGED <<rooms, written>>
  /\ UNCHANGED <<users, archives, calls, sockRoom, alive, script, local>>

\* await updateUserRoom(targetUserId, null)
KickSaved(t) ==
  /\ At(t, "kk_save")
  /\ UpdateUserRoom(h[t].tgt, NoRoomId)
  /\ Goto(t, "kk_user", h[t].room)
  /\ UNCHANGED <<rooms, archives, calls, sockRoom, alive, script, local, written>>

\* the update is broadcast; the kicked socket leaves the channel (its
\* socket.roomId is not cleared)
KickDone(t) ==
  /\ At(t, "kk_user")
  /\ Finish(t, "ok")
  /\ UNCHANGED <<rooms, users, archives, calls, sockRoom, alive, script, local, written>>

\* ---------------------------------------------------------- authenticate
\* socket.on('authenticate'): await findUserById(userId)
AuthStart(c) ==
  /\ Sends(c, "authenticate")
  /\ Begin(c, [Idle EXCEPT !.op = "authenticate", !.pc = "au_user",
                           !.rid = users[UserOf(c)]])
  /\ UNCHANGED <<rooms, users, archives, calls, sockRoom, alive, local, written>>

\* effectiveRoomId = user.currentRoomId: await getRoom(effectiveRoomId)
AuthUser(t) ==
  /\ At(t, "au_user")
  /\ IF h[t].rid # NoRoomId
     THEN Goto(t, "au_read", rooms[h[t].rid])
     ELSE Finish(t, "lobby")
  /\ UNCHANGED <<rooms, users, archives, calls, sockRoom, alive, script, local, written>>

\* the user is seated in the room: await updateRoom(updatedRoom)
AuthRead(t) ==
  /\ At(t, "au_read")
  /\ LET room == h[t].room
         u == UserOf(ConnOf(t))
     IN IF room # NoRoom /\ HasUser(room, u)
        THEN LET updatedRoom ==
                   [room EXCEPT !.players = ReconnectedPlayers(@, u, ConnOf(t))]
             IN /\ SaveRoom(h[t].rid, updatedRoom)
                /\ Goto(t, "au_save", updatedRoom)
        ELSE /\ Finish(t, "lobby")
             /\ UNCHANGED <<rooms, written>>
  /\ UNCHANGED <<users, archives, calls, sockRoom, alive, script, local>>

\* socket.roomId = room.id; the room is broadcast
AuthDone(t) ==
  /\ At(t, "au_save")
  /\ sockRoom' = [sockRoom EXCEPT ![ConnOf(t)] = h[t].rid]
  /\ Finish(t, "ok")
  /\ UNCHANGED <<rooms, users, archives, calls, alive, script, local, written>>

\* ----------------------------------------------------------------- events
\* Events as the client builds them (createDianPaoEvent, createGangEvent):
\* user 1 wins 2 points on a discard of user 2; user 2 declares a concealed
\* gang against user 1.
EventA ==
  [id |-> 1, type |-> "dian_pao_hu", winnerId |-> 1, loserIds |-> <<2>>,
   gangType |-> "none", gangTargetIds |-> <<>>, fanCount |-> 1, score |-> 2]

EventB ==
  [id |-> 2, type |-> "gang", winnerId |-> 2, loserIds |-> <<>>,
   gangType |-> "an_gang", gangTargetIds |-> <<1>>, fanCount |-> 0, score |-> 2]

\* user 3 wins by self-draw against users 1 and 2, without fan
EventC == createZiMoEvent(3, 3, <<3, 1, 2>>, <<>>, 0, DefaultSettings)

\* ------------------------------------------------------------------ Init
\* the rooms in storage at the start have been stored
WrittenAtStart ==
  written = [r \in RoomIds |-> IF rooms[r] = NoRoom THEN {} ELSE {rooms[r]}]

\* The store after socket 1 (user 1) has created room 1 and the sockets
\* 2..n have joined it, one after the other, all handlers finished.
SeatedRoom(n) ==
  [NewRoom(1, 1, 1) EXCEPT !.players = [i \in 1..n |-> Seat(i, i)]]

Seated(n) ==
  /\ users = [u \in Users |-> IF u <= n THEN 1 ELSE NoRoomId]
  /\ archives = [r \in RoomIds |-> NoArchive]
  /\ calls = [r \in RoomIds |-> [archive |-> 0, delete |-> 0]]
  /\ sockRoom = [c \in Conns |-> IF c <= n THEN 1 ELSE NoRoomId]
  /\ alive = [c \in Conns |-> TRUE]
  /\ h = [t \in Tasks |-> Idle]
  /\ local = NoGs

Do(op) == Intent(op, 1, NoUser, NoEvent)
Add(ev) == Intent("addGameEvent", 1, NoUser, ev)
Drop == Intent("disconnect", NoRoomId, NoUser, NoEvent)

Scripts(s1, s2, s3) ==
  script = [c \in Conns |->
              CASE c = 1 -> s1
                [] c = 2 -> s2
                [] c = 3 -> s3
                [] OTHER -> <<>>]

\* The game of room 1 after the host has started it and recorded EventA.
PlayedGame == AddedEvent(StartedGame(SeatedRoom(2)), EventA)

\* The disband scenario: users 1 (host) and 2 are seated in room 1, with a
\* game that is not started or has one event; user 3 is in the lobby.  The
\* host ends the game and its socket closes; user 2 goes away; user 3 joins.
Init ==
  /\ Seated(2)
  /\ \E gs \in {getDefaultGameState, PlayedGame} :
       rooms = [r \in RoomIds |->
                  IF r = 1 THEN [SeatedRoom(2) EXCEPT !.gameState = gs] ELSE NoRoom]
  /\ Scripts(<<Do("endGame"), Drop>>, <<Drop>>, <<Do("joinRoom")>>)
  /\ WrittenAtStart

Next ==
  \/ \E c \in Conns :
       \/ EndGameStart(c)
       \/ JoinRoomStart(c)
       \/ DisconnectStart(c)
  \/ \E t \in Tasks :
       \/ EndGameCheck(t)
       \/ EndRead(t)
       \/ EndArchived(t)
       \/ EndUsers(t)
       \/ EndDone(t)
       \/ JoinRoomCheck(t)
       \/ JoinRoomRead(t)
       \/ JoinRoomSaved(t)
       \/ JoinRoomDone(t)
       \/ DisconnectRead(t)
       \/ DisconnectSaved(t)

Spec == Init /\ [][Next]_vars

\* The game scenario: users 1 (host) and 2 are seated in room 1 and the host
\* has started the game.  The host records EventA; then it settles twice, or
\* closes the round and settles, or settles and closes the round.  User 2
\* records EventB at any time.
HostScripts ==
  {<<Add(EventA), Do("settleGame"), Do("settleGame")>>,
   <<Add(EventA), Do("nextRound"), Do("settleGame")>>,
   <<Add(EventA), Do("settleGame"), Do("nextRound")>>}

InitGame ==
  /\ Seated(2)
  /\ rooms = [r \in RoomIds |->
                IF r = 1
                THEN [SeatedRoom(2) EXCEPT !.gameState = StartedGame(SeatedRoom(2))]
                ELSE NoRoom]
  /\ \E s1 \in HostScripts : Scripts(s1, <<Add(EventB)>>, <<>>)
  /\ WrittenAtStart

NextGame ==
  \/ \E c \in Conns :
       \/ AddGameEventStart(c)
       \/ NextRoundStart(c)
       \/ SettleGameStart(c)
  \/ \E t \in Tasks :
       \/ AddGameEventRead(t)
       \/ NextRoundCheck(t)
       \/ NextRoundRead(t)
       \/ SettleGameCheck(t)
       \/ SettleGameRead(t)
       \/ UgsRead(t)
       \/ UgsSaved(t)

SpecGame == InitGame /\ [][NextGame]_vars


\* The lobby scenarios: users 1 (host), 2 and 3 are seated in room 1, no game
\* started; users 4 and 5 are in the lobby; socket NumUsers + 1 is a second
\* socket of user 1.
Join(rid) == Intent("joinRoom", rid, NoUser, NoEvent)
Kick(u) == Intent("kickPlayer", 1, u, NoEvent)
Leave == Do("leaveRoom")
Create == Intent("createRoom", NoRoomId, NoUser, NoEvent)
Auth == Intent("authenticate", NoRoomId, NoUser, NoEvent)

\* the game of room 1 after the host has started it with three seats and
\* recorded EventA
PlayedGame3 == AddedEvent(StartedGame(SeatedRoom(3)), EventA)

\* what the sockets 1, 2, 3, 4, 5 and NumUsers + 1 send, and the game of room 1
LobbyScenarios ==
  {<<<<Drop>>, <<>>, <<>>, <<Join(1)>>, <<Join(1)>>, <<Join(1)>>, getDefaultGameState>>,
   <<<<>>, <<>>, <<>>, <<Join(1)>>, <<Join(1)>>, <<Join(2)>>, getDefaultGameState>>,
   <<<<Drop>>, <<Drop>>, <<>>, <<>>, <<>>, <<Auth>>, getDefaultGameState>>,
   <<<<Drop>>, <<Drop>>, <<Drop>>, <<>>, <<>>, <<Join(1)>>, PlayedGame3>>,
   <<<<Kick(1), Kick(5), Kick(2)>>, <<Leave>>, <<>>, <<Create>>, <<>>, <<>>,
     getDefaultGameState>>,
   <<<<Leave>>, <<Drop>>, <<>>, <<Join(1)>>, <<>>, <<>>, getDefaultGameState>>,
   <<<<Leave>>, <<Leave>>, <<Leave>>, <<>>, <<>>, <<Auth>>, PlayedGame3>>,
   <<<<>>, <<>>, <<>>, <<Create>>, <<Create>>, <<>>, getDefaultGameState>>,
   <<<<Drop>>, <<Add(EventB)>>, <<>>, <<Join(1)>>, <<>>, <<>>, PlayedGame3>>}

InitLobby ==
  /\ Seated(3)
  /\ \E s \in LobbyScenarios :
       /\ rooms = [r \in RoomIds |->
                     IF r = 1 THEN [SeatedRoom(3) EXCEPT !.gameState = s[7]]
                     ELSE NoRoom]
       /\ script = [c \in Conns |->
                      IF c = NumUsers + 1 THEN s[6]
                      ELSE IF c <= 5 THEN s[c]
                      ELSE <<>>]
  /\ WrittenAtStart

NextLobby ==
  \/ \E c \in Conns :
       \/ CreateRoomStart(c)
       \/ JoinRoomStart(c)
       \/ LeaveRoomStart(c)
       \/ KickStart(c)
       \/ AuthStart(c)
       \/ AddGameEventStart(c)
       \/ DisconnectStart(c)
  \/ \E t \in Tasks :
       \/ AddGameEventRead(t)
       \/ UgsRead(t)
       \/ UgsSaved(t)
       \/ CreateRoomGen(t)
       \/ CreateRoomSaved(t)
       \/ CreateRoomDone(t)
       \/ JoinRoomCheck(t)
       \/ JoinRoomRead(t)
       \/ JoinRoomSaved(t)
       \/ JoinRoomDone(t)
       \/ LeaveRoomRead(t)
       \/ LeaveRoomLastUser(t)
       \/ LeaveRoomSaved(t)
       \/ LeaveRoomDone(t)
       \/ KickCheck(t)
       \/ KickRead(t)
       \/ KickSaved(t)
       \/ KickDone(t)
       \/ AuthUser(t)
       \/ AuthRead(t)
       \/ AuthDone(t)
       \/ DisconnectRead(t)
       \/ DisconnectSaved(t)
       \/ EndRead(t)
       \/ EndArchived(t)
       \/ EndUsers(t)
       \/ EndDone(t)

SpecLobby == InitLobby /\ [][NextLobby]_vars

\* The same operations one at a time: a handler starts only when no other
\* is in flight.  A socket sends nothing after its leaveRoom.  The second
\* socket of user 1 rejoins room 1, authenticates, or creates a room (the
\* createRoom handler does not look at the user's currentRoomId).
SeqScenarios ==
  {<<s1, s2, s3, s4, <<>>, s6, gs>> :
     gs \in {getDefaultGameState, PlayedGame3},
     s1 \in {<<Drop>>, <<Leave>>, <<Kick(2), Leave>>},
     s2 \in {<<Drop>>, <<Leave>>},
     s3 \in {<<>>, <<Drop>>, <<Leave>>},
     s4 \in {<<Join(1)>>, <<Create, Drop>>},
     s6 \in {<<Join(1)>>, <<Auth>>, <<Create>>}}

InitSeq ==
  /\ Seated(3)
  /\ \E s \in SeqScenarios :
       /\ rooms = [r \in RoomIds |->
                     IF r = 1 THEN [SeatedRoom(3) EXCEPT !.gameState = s[7]]
                     ELSE NoRoom]
       /\ script = [c \in Conns |->
                      IF c = NumUsers + 1 THEN s[6]
                      ELSE IF c <= 5 THEN s[c]
                      ELSE <<>>]
  /\ WrittenAtStart

NoneInFlight == \A t \in Tasks : Free(t)

NextSeq ==
  \/ \E c \in Conns :
       \/ NoneInFlight /\ CreateRoomStart(c)
       \/ NoneInFlight /\ JoinRoomStart(c)
       \/ NoneInFlight /\ LeaveRoomStart(c)
       \/ NoneInFlight /\ KickStart(c)
       \/ NoneInFlight /\ AuthStart(c)
       \/ NoneInFlight /\ DisconnectStart(c)
  \/ \E t \in Tasks :
       \/ CreateRoomGen(t)
       \/ CreateRoomSaved(t)
       \/ CreateRoomDone(t)
       \/ JoinRoomCheck(t)
       \/ JoinRoomRead(t)
       \/ JoinRoomSaved(t)
       \/ JoinRoomDone(t)
       \/ LeaveRoomRead(t)
       \/ LeaveRoomLastUser(t)
       \/ LeaveRoomSaved(t)
       \/ LeaveRoomDone(t)
       \/ KickCheck(t)
       \/ KickRead(t)
       \/ KickSaved(t)
       \/ KickDone(t)
       \/ AuthUser(t)
       \/ AuthRead(t)
       \/ AuthDone(t)
       \/ DisconnectRead(t)
       \/ DisconnectSaved(t)
       \/ EndRead(t)
       \/ EndArchived(t)
       \/ EndUsers(t)
       \/ EndDone(t)

SpecSeq == InitSeq /\ [][NextSeq]_vars

\* The host scenario: users 1 (host), 2 and 3 are seated in room 1, no game
\* started.  The host starts the game, closes the first round without an
\* event, records EventA, closes the round, records EventC, kicks user 3,
\* settles and ends the game; user 2 sends the host-only intents.
InitHost ==
  /\ Seated(3)
  /\ rooms = [r \in RoomIds |-> IF r = 1 THEN SeatedRoom(3) ELSE NoRoom]
  /\ Scripts(<<Do("startGame"), Do("nextRound"), Add(EventA), Do("nextRound"),
               Add(EventC), Kick(3), Do("settleGame"), Do("endGame")>>,
             <<Do("startGame"), Do("nextRound"), Do("settleGame"), Kick(3),
               Do("endGame")>>,
             <<>>)
  /\ WrittenAtStart

NextHost ==
  \/ \E c \in Conns :
       \/ StartGameStart(c)
       \/ AddGameEventStart(c)
       \/ NextRoundStart(c)
       \/ SettleGameStart(c)
       \/ KickStart(c)
       \/ EndGameStart(c)
  \/ \E t \in Tasks :
       \/ StartGameCheck(t)
       \/ AddGameEventRead(t)
       \/ NextRoundCheck(t)
       \/ NextRoundRead(t)
       \/ SettleGameCheck(t)
       \/ SettleGameRead(t)
       \/ UgsRead(t)
       \/ UgsSaved(t)
       \/ KickCheck(t)
       \/ KickRead(t)
       \/ KickSaved(t)
       \/ KickDone(t)
       \/ EndGameCheck(t)
       \/ EndRead(t)
       \/ EndArchived(t)
       \/ EndUsers(t)
       \/ EndDone(t)

SpecHost == InitHost /\ [][NextHost]_vars

\* ------------------------------------------------------- the local ledger
\* The client application in local mode (no server): its game state, the
\* counter of generateUniqueId, and two records kept for the properties:
\* `start`, the players when the open round began, and `args`, the
\* arguments of the last operation.
MaxEvents == 2

NoArgs ==
  [op |-> "none", winnerId |-> NoUser, ids |-> <<>>, fanTypes |-> <<>>,
   gangCount |-> 0, gangType |-> "none", eventId |-> 0]

addEvent(prev, event) ==
  [prev EXCEPT !.players = applyEventToPlayers(event, prev.players),
               !.currentRoundEvents = Append(@, event)]

removeEvent(prev, eventId) ==
  LET evs == prev.currentRoundEvents
      found == {i \in 1..Len(evs) : evs[i].id = eventId}
      Keep(e) == e.id # eventId
  IN IF found = {} THEN prev
     ELSE LET eventToRemove == evs[CHOOSE i \in found : \A j \in found : i <= j]
          IN [prev EXCEPT
                !.players = reverseApplyEventToPlayers(eventToRemove, prev.players),
                !.currentRoundEvents = SelectSeq(evs, Keep)]

\* The arguments the constructors are called with: fan types with a gang
\* count, the winner with the players still in the hand (the winner first,
\* as the event form lists them), the winner with the discarder, the
\* declarer of a gang with its targets.  The event form never lists the
\* declarer among the targets; createGangEvent takes any list, and the
\* last choice is one that names the declarer.
FanChoices ==
  {<<<<>>, 0>>, <<<<"JIN_GOU_DIAO", "LONG_QI_DUI">>, 0>>, <<<<"DA_DUI_ZI">>, 1>>}

ZiMoChoices == {<<1, <<1, 2>>>>, <<1, <<1, 2, 3, 4>>>>, <<2, <<2, 1, 3>>>>}

DianPaoChoices == {<<1, 2>>, <<3, 1>>}

GangChoices == {<<1, <<2>>>>, <<2, <<1, 3, 4>>>>, <<1, <<1, 2>>>>}

LocalStep(gs, args) ==
  /\ local' = [local EXCEPT !.gs = gs, !.idCounter = args.eventId, !.args = args]
  /\ UNCHANGED <<rooms, users, archives, calls, sockRoom, alive, h, script, written>>

LocalAddZiMo ==
  /\ local # NoGs
  /\ local.idCounter < MaxEvents
  /\ \E ch \in ZiMoChoices, f \in FanChoices :
       LocalStep(addEvent(local.gs,
                          createZiMoEvent(local.idCounter + 1, ch[1], ch[2], f[1], f[2],
                                          local.gs.settings)),
                 [NoArgs EXCEPT !.op = "zimo", !.winnerId = ch[1], !.ids = ch[2],
                                !.fanTypes = f[1], !.gangCount = f[2],
                                !.eventId = local.idCounter + 1])

LocalAddDianPao ==
  /\ local # NoGs
  /\ local.idCounter < MaxEvents
  /\ \E ch \in DianPaoChoices, f \in FanChoices :
       LocalStep(addEvent(local.gs,
                          createDianPaoEvent(local.idCounter + 1, ch[1], ch[2], f[1], f[2],
                                             local.gs.settings)),
                 [NoArgs EXCEPT !.op = "dianpao", !.winnerId = ch[1], !.ids = <<ch[2]>>,
                                !.fanTypes = f[1], !.gangCount = f[2],
                                !.eventId = local.idCounter + 1])

LocalAddGang ==
  /\ local # NoGs
  /\ local.idCounter < MaxEvents
  /\ \E ch \in GangChoices, g \in {"an_gang", "ba_gang"} :
       LocalStep(addEvent(local.gs,
                          createGangEvent(local.idCounter + 1, ch[1], g,
                                          local.gs.settings, ch[2])),
                 [NoArgs EXCEPT !.op = "gang", !.winnerId = ch[1], !.ids = ch[2],
                                !.gangType = g,
                                !.eventId = local.idCounter + 1])

\* the user deletes one of the events listed for the open round
LocalRemoveEvent ==
  /\ local # NoGs
  /\ \E i \in 1..Len(local.gs.currentRoundEvents) :
       /\ local' = [local EXCEPT
                      !.gs = removeEvent(@, local.gs.currentRoundEvents[i].id),
                      !.args = [NoArgs EXCEPT
                                  !.op = "removeEvent",
                                  !.eventId = local.gs.currentRoundEvents[i].id]]
       /\ UNCHANGED <<rooms, users, archives, calls, sockRoom, alive, h, script, written>>

\* A local game of four players at the start of a round, with the fan cap
\* of the default settings or none, and with or without totals from rounds
\* played before.  No socket is connected.
LocalPlayers(totals) ==
  [i \in 1..MaxSeats |-> [id |-> i, totalScore |-> totals[i], currentRoundScore |-> 0]]

InitLedger ==
  /\ rooms = [r \in RoomIds |-> NoRoom]
  /\ users = [u \in Users |-> NoRoomId]
  /\ archives = [r \in RoomIds |-> NoArchive]
  /\ calls = [r \in RoomIds |-> [archive |-> 0, delete |-> 0]]
  /\ sockRoom = [c \in Conns |-> NoRoomId]
  /\ alive = [c \in Conns |-> FALSE]
  /\ h = [t \in Tasks |-> Idle]
  /\ script = [c \in Conns |-> <<>>]
  /\ \E maxFan \in {DefaultSettings.maxFan, 0},
        totals \in {<<0, 0, 0, 0>>, <<3, -1, 0, -2>>} :
       local = [gs |-> [getDefaultGameState EXCEPT
                          !.players = LocalPlayers(totals),
                          !.settings.maxFan = maxFan],
                start |-> LocalPlayers(totals),
                idCounter |-> 0,
                args |-> NoArgs]
  /\ WrittenAtStart

NextLedger ==
  \/ LocalAddZiMo
  \/ LocalAddDianPao
  \/ LocalAddGang
  \/ LocalRemoveEvent

SpecLedger == InitLedger /\ [][NextLedger]_vars

\* --------------------------------------------------------- the event form
\* The form in which a win is declared (EventAdder): the fan types ticked so
\* far, in the order of ticking, and the gang count, which its buttons keep
\* between 0 and 4.  The form shows calculateTotalFan of the selection.
FormFanTypes == {"XIAO_HU", "DA_DUI_ZI", "JIN_GOU_DIAO", "LONG_QI_DUI"}

toggleFanType(selectedFanTypes, fanType) ==
  IF fanType \in Range(selectedFanTypes)
  THEN WithoutId(selectedFanTypes, fanType)
  ELSE Append(selectedFanTypes, fanType)

FormStep(form) ==
  /\ local' = [local EXCEPT !.selectedFanTypes = form.selectedFanTypes,
                            !.gangCount = form.gangCount]
  /\ UNCHANGED <<rooms, users, archives, calls, sockRoom, alive, h, script, written>>

FormToggleFanType ==
  \E fanType \in FormFanTypes :
    FormStep([local EXCEPT !.selectedFanTypes = toggleFanType(@, fanType)])

\* setGangCount(Math.min(4, gangCount + 1)), disabled at 4
FormGangCountUp ==
  /\ local.gangCount < 4
  /\ FormStep([local EXCEPT !.gangCount = IF @ + 1 < 4 THEN @ + 1 ELSE 4])

\* setGangCount(Math.max(0, gangCount - 1)), disabled at 0
FormGangCountDown ==
  /\ local.gangCount > 0
  /\ FormStep([local EXCEPT !.gangCount = IF @ - 1 > 0 THEN @ - 1 ELSE 0])

InitForm ==
  /\ rooms = [r \in RoomIds |-> NoRoom]
  /\ users = [u \in Users |-> NoRoomId]
  /\ archives = [r \in RoomIds |-> NoArchive]
  /\ calls = [r \in RoomIds |-> [archive |-> 0, delete |-> 0]]
  /\ sockRoom = [c \in Conns |-> NoRoomId]
  /\ alive = [c \in Conns |-> FALSE]
  /\ h = [t \in Tasks |-> Idle]
  /\ script = [c \in Conns |-> <<>>]
  /\ \E maxFan \in {DefaultSettings.maxFan, 0} :
       local = [selectedFanTypes |-> <<>>, gangCount |-> 0,
                settings |-> [DefaultSettings EXCEPT !.maxFan = maxFan]]
  /\ WrittenAtStart

NextForm ==
  \/ FormToggleFanType
  \/ FormGangCountUp
  \/ FormGangCountDown

SpecForm == InitForm /\ [][NextForm]_vars

\* ------------------------------------------------------ the final netting
\* The settle scenario: users 1 (host) to 4 are seated in room 1 and have
\* played one round, now closed, which left them totals that sum to 0; the
\* host settles the game.  The events of the closed round are not listed:
\* settleGame reads the players and the price only.
ScoreRange == 0 - 3 .. 3

TotalsChoices ==
  {<<30, 10, 0 - 25, 0 - 15>>}
    \cup {t \in ScoreRange \X ScoreRange \X ScoreRange \X ScoreRange :
            t[1] + t[2] + t[3] + t[4] = 0}

SettledRounds(totals, pricePerFan) ==
  [getDefaultGameState EXCEPT
     !.players = [i \in 1..MaxSeats |->
                    [id |-> i, totalScore |-> totals[i], currentRoundScore |-> 0]],
     !.roundHistory = <<[roundNumber |-> 1,
                         events |-> <<>>,
                         finalScores |-> [i \in 1..MaxSeats |->
                                            [playerId |-> i, score |-> totals[i]]]]>>,
     !.currentRound = 2,
     !.settings.pricePerFan = pricePerFan]

InitSettle ==
  /\ Seated(MaxSeats)
  /\ \E totals \in TotalsChoices, pricePerFan \in {1, 2} :
       rooms = [r \in RoomIds |->
                  IF r = 1
                  THEN [SeatedRoom(MaxSeats) EXCEPT
                          !.gameState = SettledRounds(totals, pricePerFan)]
                  ELSE NoRoom]
  /\ Scripts(<<Do("settleGame")>>, <<>>, <<>>)
  /\ WrittenAtStart

NextSettle ==
  \/ \E c \in Conns : SettleGameStart(c)
  \/ \E t \in Tasks :
       \/ SettleGameCheck(t)
       \/ SettleGameRead(t)
       \/ UgsRead(t)
       \/ UgsSaved(t)

SpecSettle == InitSettle /\ [][NextSettle]_vars

\* ------------------------------------------------- a room id used again
\* The archive the store holds under id 1 from an earlier room with that
\* id, which was disbanded with one event recorded (generateRoomId looks
\* for a free id in the rooms table only).
EarlierArchive == BuildArchive([SeatedRoom(2) EXCEPT !.gameState = PlayedGame])

\* The second-lifetime scenario: users 1 (host), 2 and 3 are seated in room
\* 1, with a game that is not started or has one event; the archive store
\* holds no record under id 1 or the one of an earlier room.  The host ends
\* the game and tries again; users 2 and 3 send endGame as well.
InitRelive ==
  /\ users = [u \in Users |-> IF u <= 3 THEN 1 ELSE NoRoomId]
  /\ \E a \in {NoArchive, EarlierArchive} :
       archives = [r \in RoomIds |-> IF r = 1 THEN a ELSE NoArchive]
  /\ calls = [r \in RoomIds |-> [archive |-> 0, delete |-> 0]]
  /\ sockRoom = [c \in Conns |-> IF c <= 3 THEN 1 ELSE NoRoomId]
  /\ alive = [c \in Conns |-> TRUE]
  /\ h = [t \in Tasks |-> Idle]
  /\ local = NoGs
  /\ \E gs \in {getDefaultGameState, PlayedGame3} :
       rooms = [r \in RoomIds |->
                  IF r = 1 THEN [SeatedRoom(3) EXCEPT !.gameState = gs] ELSE NoRoom]
  /\ Scripts(<<Do("endGame"), Do("endGame")>>, <<Do("endGame")>>, <<Do("endGame")>>)
  /\ WrittenAtStart

NextRelive ==
  \/ \E c \in Conns : EndGameStart(c)
  \/ \E t \in Tasks :
       \/ EndGameCheck(t)
       \/ EndRead(t)
       \/ EndArchived(t)
       \/ EndUsers(t)
       \/ EndDone(t)

SpecRelive == InitRelive /\ [][NextRelive]_vars

\* ------------------------------------------------------------- C1 .. C5
\* how a handler that has entered endGameAndDeleteRoom ends
EndOutcomes == {"disbanded", "ArchiveRejected"}

\* C1: when the host's endGame handler and the disconnect handler of the
\* last connected seat have both gone through endGameAndDeleteRoom for the
\* same room, the run has issued exactly one deleteRoomFromDb for it and
\* exactly one saveGameArchive if an archive was due (none otherwise).
C1_OneArchiveOneDeletion ==
  \A c \in Conns, d \in Conns :
    LET a == h[Req(c)]
        b == h[Disc(d)]
    IN (/\ a.op = "endGame" /\ a.pc = "done" /\ a.res \in EndOutcomes
        /\ b.op = "disconnect" /\ b.pc = "done" /\ b.res \in EndOutcomes
        /\ a.rid = b.rid)
       => /\ calls[a.rid].delete = 1
          /\ calls[a.rid].archive = IF archives[a.rid] = NoArchive THEN 0 ELSE 1

\* C2: settleGame called on a room that an earlier settleGame has already
\* finished (a game with an event or a closed round) saves the room
\* unchanged, and one GameArchive has been written for the room in total.
C2_SettleTwiceOneArchive ==
  [][\A t \in Tasks :
       (/\ h[t].op = "settleGame" /\ h[t].pc = "ugs_read" /\ h'[t].pc = "ugs_save"
        /\ rooms[h[t].rid] # NoRoom
        /\ rooms[h[t].rid].gameState.isGameFinished
        /\ HasGameStarted(rooms[h[t].rid]))
       => /\ rooms' = rooms
          /\ calls'[h[t].rid].archive = 1]_vars

\* C3: a joinRoom dispatched while a disband of the room is in flight ends
\* with an error: it never saves the room, never sets the joiner's
\* currentRoomId and never succeeds.
C3_JoinDuringDisbandFails ==
  \A c \in Conns :
    (h[Req(c)].op = "joinRoom" /\ h[Req(c)].mark)
    => /\ h[Req(c)].pc \notin {"jn_save", "jn_resave", "jn_user"}
       /\ h[Req(c)].pc = "done" => h[Req(c)].res # "ok"

\* C4: a room id that is absent from storage becomes present again only by
\* the saveRoomToDb of createRoom.
C4_DeletedRoomStaysDeleted ==
  [][\A r \in RoomIds :
       (rooms[r] = NoRoom /\ rooms'[r] # NoRoom)
       => \E t \in Tasks : h[t].op = "createRoom" /\ h[t].pc = "cr_gen"
                           /\ h'[t].pc = "cr_save" /\ h'[t].rid = r]_vars

\* every event the room holds, in closed rounds and in the open round
RECURSIVE HistoryEvents(_)
HistoryEvents(hist) ==
  IF hist = <<>> THEN <<>> ELSE Head(hist).events \o HistoryEvents(Tail(hist))

RecordedEvents(gs) == HistoryEvents(gs.roundHistory) \o gs.currentRoundEvents

RECURSIVE ApplyAll(_, _)
ApplyAll(events, players) ==
  IF events = <<>> THEN players
  ELSE ApplyAll(Tail(events), applyEventToPlayers(Head(events), players))

\* the addGameEvent handler of socket c has been dispatched and has finished
AddCompleted(c) ==
  /\ \A i \in 1..Len(script[c]) : script[c][i].op # "addGameEvent"
  /\ h[Req(c)].op = "addGameEvent" => h[Req(c)].pc = "done"

\* C5: after the addGameEvent handlers of sockets 1 (EventA) and 2 (EventB)
\* have both completed, the stored room holds both events and every
\* player's balance (totalScore + currentRoundScore) is the sum of the two
\* events' deltas.
C5_NoLostEvent ==
  (AddCompleted(1) /\ AddCompleted(2) /\ rooms[1] # NoRoom)
  => LET gs == rooms[1].gameState
         expected == ApplyAll(<<EventA, EventB>>, StartedGame(SeatedRoom(2)).players)
     IN /\ {EventA, EventB} \subseteq Range(RecordedEvents(gs))
        /\ \A i \in 1..Len(gs.players) :
             gs.players[i].totalScore + gs.players[i].currentRoundScore
               = expected[i].currentRoundScore

\* ------------------------------------------------------------ C6 .. C10
\* the least seat index of a non-empty set of them
Lowest(S) == CHOOSE i \in S : \A j \in S : i <= j

\* the seats of the room that are connected and are not the host's
ConnectedGuests(room) ==
  {j \in 1..Len(room.players) :
     room.players[j].isConnected /\ room.players[j].userId # room.hostUserId}

\* C6: when handlePlayerDisconnect has read a room in which the leaving
\* socket holds the host seat and some other seat is connected, it saves the
\* room with hostUserId set to the user of the first seat, in roster order,
\* that is connected and is not the old host; the old host's seat is marked
\* disconnected, the other seats are as they were, and the roster keeps its
\* size and order.
C6_HostDisconnectElects ==
  [][\A t \in Tasks :
       (/\ h[t].op = "disconnect" /\ h[t].pc = "dc_read" /\ h'[t].pc # "dc_read"
        /\ h[t].room # NoRoom
        /\ HasConn(h[t].room, ConnOf(t))
        /\ h[t].room.players[SeatIdxOfConn(h[t].room, ConnOf(t))].userId
             = h[t].room.hostUserId
        /\ ConnectedGuests(h[t].room) # {})
       => LET old == h[t].room
              new == rooms'[h[t].rid]
              i == SeatIdxOfConn(old, ConnOf(t))
          IN /\ h'[t].pc = "dc_save"
             /\ new.hostUserId = old.players[Lowest(ConnectedGuests(old))].userId
             /\ Len(new.players) = Len(old.players)
             /\ new.players[i] = [old.players[i] EXCEPT !.isConnected = FALSE]
             /\ \A j \in 1..Len(old.players) : j # i => new.players[j] = old.players[j]
             /\ new.gameState = old.gameState]_vars

\* C6, its case: the host's socket has closed after that of the second
\* seat, and the third seat's user has become host.
C6_Witness ==
  \E c \in Conns :
    /\ h[Disc(c)].pc = "dc_save"
    /\ Len(h[Disc(c)].room.players) = 3
    /\ h[Disc(c)].room.players[1].id = c
    /\ ~h[Disc(c)].room.players[2].isConnected
    /\ h[Disc(c)].room.hostUserId = h[Disc(c)].room.players[3].userId
    /\ rooms[h[Disc(c)].rid] = h[Disc(c)].room

\* the host's seat is connected when any seat is
HostSeatOk(room) ==
  (\E i \in 1..Len(room.players) : room.players[i].isConnected)
  => \E i \in 1..Len(room.players) :
       room.players[i].userId = room.hostUserId /\ room.players[i].isConnected

\* some host has left a room whose next seat was disconnected
SomeHostLeftToDisconnected ==
  \E c \in Conns : h[Req(c)].op = "leaveRoom" /\ h[Req(c)].mark

C8_SeatsBoundedAndDistinct ==
  \A r \in RoomIds :
    rooms[r] # NoRoom
    => /\ Len(rooms[r].players) <= MaxSeats
       /\ \A i, j \in 1..Len(rooms[r].players) :
            i # j => rooms[r].players[i].userId # rooms[r].players[j].userId

\* C8, its case: two joins of a room with one free seat have both succeeded,
\* and the room has MaxSeats seats.
C8_Witness ==
  /\ h[Req(4)].op = "joinRoom" /\ h[Req(4)].res = "ok"
  /\ h[Req(5)].op = "joinRoom" /\ h[Req(5)].res = "ok"
  /\ rooms[1] # NoRoom
  /\ Len(rooms[1].players) = MaxSeats

\* C9: joinRoom, having read a room in which the joining user is seated,
\* saves the room with that seat on the new socket and connected, every other
\* seat, the roster's size and order, hostUserId and gameState as they were,
\* whatever the number of seats, and then answers with success.
C9_JoinBySeatedUserReconnects ==
  [][\A t \in Tasks :
       /\ (/\ h[t].op = "joinRoom" /\ h[t].pc = "jn_read" /\ h'[t].pc # "jn_read"
           /\ h[t].room # NoRoom
           /\ HasUser(h[t].room, UserOf(ConnOf(t))))
          => LET old == h[t].room
                 new == rooms'[h[t].rid]
                 i == SeatIdxOfUser(old, UserOf(ConnOf(t)))
             IN /\ h'[t].pc = "jn_resave"
                /\ Len(new.players) = Len(old.players)
                /\ new.players[i] = [old.players[i] EXCEPT !.id = ConnOf(t),
                                                           !.isConnected = TRUE]
                /\ \A j \in 1..Len(old.players) :
                     j # i => new.players[j] = old.players[j]
                /\ new.hostUserId = old.hostUserId
                /\ new.gameState = old.gameState
       /\ (h[t].pc = "jn_resave" /\ h'[t].pc # "jn_resave")
          => h'[t].pc = "done" /\ h'[t].res = "ok"]_vars

\* C9, its case: a seated user whose seat was disconnected (the host has
\* changed) has joined again on a new socket when the room had MaxSeats seats.
C9_Witness ==
  \E c \in Conns :
    /\ h[Req(c)].op = "joinRoom" /\ h[Req(c)].pc = "jn_resave"
    /\ Len(h[Req(c)].room.players) = MaxSeats
    /\ h[Req(c)].room.players[1].id = c
    /\ h[Req(c)].room.hostUserId # UserOf(c)
    /\ rooms[h[Req(c)].rid] = h[Req(c)].room

\* C10: a joinRoom that has read no room answers RoomNotFound, one that has
\* read a room of MaxSeats seats none of which is the joiner's answers
\* RoomFull; in both cases the step changes no stored room, no user's
\* currentRoomId and no socket's room.
C10_JoinErrorsChangeNothing ==
  [][\A t \in Tasks :
       (h[t].op = "joinRoom" /\ h[t].pc \in {"jn_check", "jn_read"}
        /\ h'[t].pc # h[t].pc)
       => /\ h[t].room = NoRoom
             => /\ h'[t].pc = "done" /\ h'[t].res = "RoomNotFound"
                /\ UNCHANGED <<rooms, users, sockRoom>>
          /\ (/\ h[t].pc = "jn_read"
              /\ h[t].room # NoRoom
              /\ Len(h[t].room.players) = MaxSeats
              /\ ~HasUser(h[t].room, UserOf(ConnOf(t))))
             => /\ h'[t].pc = "done" /\ h'[t].res = "RoomFull"
                /\ UNCHANGED <<rooms, users, sockRoom>>]_vars

\* C10, its case: one join has been refused by a full room and another by
\* an absent one; the joiner refused by the full room is still in the lobby.
C10_Witness ==
  /\ h[Req(5)].op = "joinRoom" /\ h[Req(5)].res = "RoomFull"
  /\ h[Req(NumUsers + 1)].op = "joinRoom" /\ h[Req(NumUsers + 1)].res = "RoomNotFound"
  /\ users[UserOf(5)] = NoRoomId
  /\ sockRoom[5] = NoRoomId
  /\ Len(rooms[1].players) = MaxSeats

\* ----------------------------------------------------------- C11 .. C15
\* the roster without its seat i
WithoutSeat(players, i) ==
  [j \in 1..(Len(players) - 1) |-> IF j < i THEN players[j] ELSE players[j + 1]]

\* C11: leaveRoom, having read a room whose only seat is the leaver's,
\* clears the leaver's currentRoomId, then deletes the room, and writes no
\* GameArchive (no saveGameArchive call), whatever the game holds.
C11_LastSeatLeaveDeletes ==
  [][\A t \in Tasks :
       /\ (/\ h[t].op = "leaveRoom" /\ h[t].pc = "lv_read" /\ h'[t].pc # "lv_read"
           /\ h[t].room # NoRoom
           /\ HasConn(h[t].room, ConnOf(t))
           /\ Len(h[t].room.players) = 1)
          => /\ h'[t].pc = "lv_lastuser"
             /\ users' = [users EXCEPT ![h[t].room.players[1].userId] = NoRoomId]
             /\ UNCHANGED <<rooms, archives, calls>>
       /\ (h[t].pc = "lv_lastuser" /\ h'[t].pc # "lv_lastuser")
          => /\ h'[t].pc = "lv_delete"
             /\ rooms' = [rooms EXCEPT ![h[t].rid] = NoRoom]
             /\ calls'[h[t].rid].archive = calls[h[t].rid].archive
             /\ UNCHANGED <<users, archives>>
       /\ (h[t].pc = "lv_delete" /\ h'[t].pc # "lv_delete")
          => /\ h'[t].pc = "done" /\ h'[t].res = "ok"
             /\ UNCHANGED <<rooms, users, archives, calls>>]_vars

\* C11, its case: the last seat of a room whose game has an event is
\* leaving; its user's currentRoomId is cleared and no archive exists.
C11_Witness ==
  \E t \in Tasks :
    /\ h[t].op = "leaveRoom" /\ h[t].pc = "lv_lastuser"
    /\ Len(h[t].room.players) = 1
    /\ HasGameStarted(h[t].room)
    /\ users[h[t].room.players[1].userId] = NoRoomId
    /\ archives[h[t].rid] = NoArchive

\* C12: leaveRoom, having read a room in which the leaver's socket holds a
\* seat and other seats remain, saves the room without exactly that seat,
\* gameState as it was, hostUserId set to the first remaining seat's user if
\* the leaver was host and as it was otherwise; then it clears the leaver's
\* currentRoomId.
C12_LeaveRemovesOneSeat ==
  [][\A t \in Tasks :
       /\ (/\ h[t].op = "leaveRoom" /\ h[t].pc = "lv_read" /\ h'[t].pc # "lv_read"
           /\ h[t].room # NoRoom
           /\ HasConn(h[t].room, ConnOf(t))
           /\ Len(h[t].room.players) > 1)
          => LET old == h[t].room
                 new == rooms'[h[t].rid]
                 i == SeatIdxOfConn(old, ConnOf(t))
             IN /\ h'[t].pc = "lv_save"
                /\ new.players = WithoutSeat(old.players, i)
                /\ new.gameState = old.gameState
                /\ new.hostUserId = IF old.players[i].userId = old.hostUserId
                                    THEN new.players[1].userId
                                    ELSE old.hostUserId
                /\ UNCHANGED <<users, archives, calls>>
       /\ (h[t].op = "leaveRoom" /\ h[t].pc = "lv_save" /\ h'[t].pc # "lv_save")
          => /\ h'[t].pc = "lv_user"
             /\ users' = [users EXCEPT ![UserOf(ConnOf(t))] = NoRoomId]
             /\ UNCHANGED <<rooms, archives, calls>>]_vars

\* C12, its case: the host has left a room of three seats; the second
\* seat's user is host of the two seats that remain.
C12_Witness ==
  \E t \in Tasks :
    /\ h[t].op = "leaveRoom" /\ h[t].pc = "lv_user"
    /\ UserOf(ConnOf(t)) = 1
    /\ users[1] = NoRoomId
    /\ Len(h[t].room.players) = 2
    /\ h[t].room.hostUserId = 2
    /\ h[t].room.players[1].userId = 2
    /\ rooms[h[t].rid] = h[t].room

\* C14: kickPlayerFromRoom, having read the room, answers CannotKickHost
\* when the target is the host and PlayerNotFound when the target is not
\* seated, and then changes no room and no user; otherwise it saves the room
\* without exactly the target's seat, hostUserId and gameState as they were,
\* and then clears the target's currentRoomId.
C14_KickErrorsAndEffect ==
  [][\A t \in Tasks :
       /\ (/\ h[t].op = "kickPlayer" /\ h[t].pc = "kk_read" /\ h'[t].pc # "kk_read"
           /\ h[t].room # NoRoom)
          => LET old == h[t].room
                 new == rooms'[h[t].rid]
             IN IF h[t].tgt = old.hostUserId
                THEN /\ h'[t].pc = "done" /\ h'[t].res = "CannotKickHost"
                     /\ UNCHANGED <<rooms, users, archives, calls>>
                ELSE IF ~HasUser(old, h[t].tgt)
                THEN /\ h'[t].pc = "done" /\ h'[t].res = "PlayerNotFound"
                     /\ UNCHANGED <<rooms, users, archives, calls>>
                ELSE /\ h'[t].pc = "kk_save"
                     /\ new.players = WithoutSeat(old.players, SeatIdxOfUser(old, h[t].tgt))
                     /\ new.hostUserId = old.hostUserId
                     /\ new.gameState = old.gameState
                     /\ UNCHANGED <<users, archives, calls>>
       /\ (h[t].op = "kickPlayer" /\ h[t].pc = "kk_save" /\ h'[t].pc # "kk_save")
          => /\ h'[t].pc = "kk_user"
             /\ users' = [users EXCEPT ![h[t].tgt] = NoRoomId]
             /\ UNCHANGED <<rooms, archives, calls>>]_vars

\* C14, its case: the host, refused for the host and for a user who is not
\* seated, has kicked user 2: the seat is gone and the user is in the lobby.
C14_Witness ==
  /\ h[Req(1)].op = "kickPlayer" /\ h[Req(1)].pc = "kk_user"
  /\ h[Req(1)].tgt = 2
  /\ script[1] = <<>>
  /\ users[2] = NoRoomId
  /\ rooms[1] # NoRoom
  /\ ~HasUser(rooms[1], 2)
  /\ HasUser(rooms[1], 3)
  /\ rooms[1].hostUserId = 1

HostCheckPcs == {"sg_check", "nr_check", "st_check", "eg_check", "kk_check"}

\* C15: a startGame, nextRound, settleGame, endGame or kickPlayer handler
\* that has read a room in which its socket holds a seat that is not the
\* host's answers its socket with an error and returns: the step changes no
\* room, no user, no archive and issues no storage write.
C15_NonHostChangesNothing ==
  [][\A t \in Tasks :
       (/\ h[t].op \in {"startGame", "nextRound", "settleGame", "endGame", "kickPlayer"}
        /\ h[t].pc \in HostCheckPcs /\ h'[t].pc # h[t].pc
        /\ h[t].room # NoRoom
        /\ HasConn(h[t].room, ConnOf(t))
        /\ h[t].room.players[SeatIdxOfConn(h[t].room, ConnOf(t))].userId
             # h[t].room.hostUserId)
       => /\ h'[t].pc = "done" /\ h'[t].res = "NotHost"
          /\ UNCHANGED <<rooms, users, archives, calls, sockRoom>>]_vars

\* C15, its case: user 2, not the host, has sent endGame on a room whose
\* game has an event; it is refused and the room is still stored.
C15_Witness ==
  /\ h[Req(2)].op = "endGame" /\ h[Req(2)].pc = "done" /\ h[Req(2)].res = "NotHost"
  /\ rooms[1] # NoRoom
  /\ HasGameStarted(rooms[1])
  /\ rooms[1].hostUserId = 1
  /\ archives[1] = NoArchive

\* ------------------------------------------------------------ C16 .. C20
RECURSIVE SumScores(_)
SumScores(players) ==
  IF players = <<>> THEN 0
  ELSE Head(players).currentRoundScore + SumScores(Tail(players))

\* the events of a list reversed one by one, the last one first
RECURSIVE ReverseAllBackwards(_, _)
ReverseAllBackwards(events, players) ==
  IF events = <<>> THEN players
  ELSE ReverseAllBackwards(SubSeq(events, 1, Len(events) - 1),
                           reverseApplyEventToPlayers(events[Len(events)], players))

\* the step has added an event out of the form `op`
Added(op) ==
  /\ local'.args.op = op
  /\ local'.idCounter = local.idCounter + 1
  /\ Len(local'.gs.currentRoundEvents) = Len(local.gs.currentRoundEvents) + 1

AddedEventOf == local'.gs.currentRoundEvents[Len(local'.gs.currentRoundEvents)]

Delta(i) ==
  local'.gs.players[i].currentRoundScore - local.gs.players[i].currentRoundScore

SumDelta == SumScores(local'.gs.players) - SumScores(local.gs.players)

RoundTrip ==
  ReverseAllBackwards(local.gs.currentRoundEvents, local.gs.players) = local.start

\* C16: after every step of the local ledger, reversing the events of the
\* open round one by one, the last one first, gives every player the scores
\* the round started with; and a step that deletes one event of the open
\* round, whichever its position, leaves the players with the scores that
\* applying the remaining events in order to the start of the round gives.
C16_RoundTripAndRetract ==
  [][/\ RoundTrip'
     /\ local'.args.op = "removeEvent" /\ local'.gs # local.gs
        => LET Keep(e) == e.id # local'.args.eventId
           IN /\ local'.gs.currentRoundEvents
                   = SelectSeq(local.gs.currentRoundEvents, Keep)
              /\ Len(local'.gs.currentRoundEvents)
                   = Len(local.gs.currentRoundEvents) - 1
              /\ local'.gs.players
                   = ApplyAll(local'.gs.currentRoundEvents, local.start)]_vars

\* C16, its case: two events were recorded, a self-draw and then a gang, and
\* the first one has been deleted while the second one stays.
C16_Witness ==
  /\ local # NoGs
  /\ local.args.op = "removeEvent" /\ local.args.eventId = 1
  /\ Len(local.gs.currentRoundEvents) = 1
  /\ local.gs.currentRoundEvents[1].id = 2
  /\ local.gs.currentRoundEvents[1].type = "gang"
  /\ local.gs.players # local.start

\* C17: adding a self-draw event built by createZiMoEvent for N >= 2 players
\* in the hand, the winner among them, changes the round scores by deltas
\* that sum to 0: the winner gains event.score, every other player in the
\* hand loses event.score / (N - 1), which is a whole number, and the
\* players out of the hand keep their score.
C17_SelfDrawZeroSum ==
  [][Added("zimo")
     => LET e == AddedEventOf
            N == Len(local'.args.ids)
        IN /\ N >= 2
           /\ SumDelta = 0
           /\ e.score % (N - 1) = 0
           /\ \A i \in 1..Len(local.gs.players) :
                Delta(i) = IF local.gs.players[i].id = local'.args.winnerId
                           THEN e.score
                           ELSE IF local.gs.players[i].id \in Range(local'.args.ids)
                                THEN 0 - (e.score \div (N - 1))
                                ELSE 0]_vars

\* C17, its case: a self-draw among three of the four players was recorded.
C17_Witness ==
  /\ local # NoGs
  /\ local.args.op = "zimo" /\ Len(local.args.ids) = 3
  /\ Len(local.gs.currentRoundEvents) = 1
  /\ local.gs.currentRoundEvents[1].type = "hu_pai"
  /\ local.gs.currentRoundEvents[1].score > 0

\* C18: adding a gang event built by createGangEvent, for any declarer and
\* any non-empty list of targets among the players, credits the declarer
\* with the base stake of the kind times the number of targets and debits
\* the base stake from every target, the deltas summing to 0.
C18_GangCreditsAndDebits ==
  [][Added("gang")
     => LET base == GANG_SCORE_MAP(local'.args.gangType)
        IN /\ SumDelta = 0
           /\ \A i \in 1..Len(local.gs.players) :
                /\ local.gs.players[i].id = local'.args.winnerId
                     /\ local.gs.players[i].id \notin Range(local'.args.ids)
                   => Delta(i) = base * Len(local'.args.ids)
                /\ local.gs.players[i].id \in Range(local'.args.ids)
                     /\ local.gs.players[i].id # local'.args.winnerId
                   => Delta(i) = 0 - base
                /\ local.gs.players[i].id \in Range(local'.args.ids)
                     /\ local.gs.players[i].id = local'.args.winnerId
                   => Delta(i) = base * Len(local'.args.ids) - base]_vars

\* the fan that scores: the total, or maxFan when there is a cap and the
\* total is above it
ScoringFan(args, settings) ==
  LET total == calculateTotalFan(args.fanTypes, args.gangCount)
  IN IF settings.maxFan > 0 /\ total > settings.maxFan THEN settings.maxFan ELSE total

\* C19: the score of a self-draw event is (scoreFromFan(f) + 1) * (N - 1),
\* f the total fan, replaced by maxFan when maxFan > 0 and the total is
\* above it; with maxFan 4, fan types worth 2 + 3 and four players in the
\* hand the winner is credited 51 and each of the three others debited 17.
C19_SelfDrawScore ==
  [][Added("zimo")
     => LET e == AddedEventOf
            N == Len(local'.args.ids)
            f == ScoringFan(local'.args, local.gs.settings)
        IN /\ e.score = ((IF f = 0 THEN 1 ELSE 2 ^ f) + 1) * (N - 1)
           /\ (/\ local.gs.settings.maxFan = 4
               /\ local'.args.fanTypes = <<"JIN_GOU_DIAO", "LONG_QI_DUI">>
               /\ local'.args.gangCount = 0
               /\ N = 4)
              => \A i \in 1..Len(local.gs.players) :
                   Delta(i) = IF local.gs.players[i].id = local'.args.winnerId
                              THEN 51 ELSE 0 - 17]_vars

\* C19, its case: with maxFan 4, a self-draw of total fan 5 among four
\* players was recorded.
C19_Witness ==
  /\ local # NoGs
  /\ local.gs.settings.maxFan = 4
  /\ local.args.op = "zimo" /\ Len(local.args.ids) = 4
  /\ local.args.fanTypes = <<"JIN_GOU_DIAO", "LONG_QI_DUI">>
  /\ local.args.gangCount = 0
  /\ local.idCounter = 1

\* C20: the score of a discard win is scoreFromFan of the capped fan,
\* without bonus or multiplier, 1 when there is no fan type and no gang;
\* adding it credits the winner with the score, debits the discarder, who is
\* another player, by the same score and changes no score of anyone else.
C20_DiscardWinScore ==
  [][Added("dianpao") /\ local'.args.ids[1] # local'.args.winnerId
     => LET e == AddedEventOf
            f == ScoringFan(local'.args, local.gs.settings)
        IN /\ e.score = IF f = 0 THEN 1 ELSE 2 ^ f
           /\ local'.args.fanTypes = <<>> /\ local'.args.gangCount = 0 => e.score = 1
           /\ \A i \in 1..Len(local.gs.players) :
                /\ local'.gs.players[i].totalScore = local.gs.players[i].totalScore
                /\ Delta(i) = IF local.gs.players[i].id = local'.args.winnerId
                              THEN e.score
                              ELSE IF local.gs.players[i].id = local'.args.ids[1]
                                   THEN 0 - e.score
                                   ELSE 0]_vars

\* C20, its case: a discard win without fan type or gang was recorded, user
\* 1 winning on the discard of user 2.
C20_Witness ==
  /\ local # NoGs
  /\ local.args.op = "dianpao"
  /\ local.args.fanTypes = <<>> /\ local.args.gangCount = 0
  /\ local.args.winnerId = 1 /\ local.args.ids = <<2>>
  /\ local.idCounter = 1
  /\ local.gs.players[1].currentRoundScore = 1
  /\ local.gs.players[2].currentRoundScore = 0 - 1

\* ------------------------------------------------------------ C21 .. C30
\* the fan of the selection in the form, total and as it scores
FormTotalFan(form) == calculateTotalFan(form.selectedFanTypes, form.gangCount)

FormScoringFan(form) ==
  ScoringFan([fanTypes |-> form.selectedFanTypes, gangCount |-> form.gangCount],
             form.settings)

\* C21: a step of the form that ticks one more fan type, or raises the gang
\* count, lowers neither the total fan of the selection nor the capped fan
\* that scores.
C21_TotalFanMonotone ==
  [][(\/ /\ Len(local'.selectedFanTypes) = Len(local.selectedFanTypes) + 1
         /\ SubSeq(local'.selectedFanTypes, 1, Len(local.selectedFanTypes))
              = local.selectedFanTypes
         /\ local'.gangCount = local.gangCount
      \/ /\ local'.selectedFanTypes = local.selectedFanTypes
         /\ local'.gangCount > local.gangCount)
     => /\ FormTotalFan(local') >= FormTotalFan(local)
        /\ FormScoringFan(local') >= FormScoringFan(local)]_vars

\* C21, its case: with maxFan 4, fan types worth 2 + 3 and one gang are
\* selected: total fan 6, scoring fan 4.
C21_Witness ==
  /\ local.settings.maxFan = 4
  /\ local.selectedFanTypes = <<"JIN_GOU_DIAO", "LONG_QI_DUI">>
  /\ local.gangCount = 1
  /\ FormTotalFan(local) = 6
  /\ FormScoringFan(local) = 4

\* the handler t of an intent `op` saves the room with its new game state
Saves(t, op) ==
  /\ h[t].op = op
  /\ h[t].pc = "ugs_read" /\ h'[t].pc = "ugs_save"
  /\ rooms[h[t].rid] # NoRoom

\* C22: in the host scenario, where no other handler writes the room, the
\* save of a nextRound on a room whose open round has no events stores the
\* room as it was with currentRound one higher: roundHistory,
\* currentRoundEvents and every score are what they were.
C22_EmptyRoundOnlyCounts ==
  [][\A t \in Tasks :
       Saves(t, "nextRound") /\ Len(rooms[h[t].rid].gameState.currentRoundEvents) = 0
       => LET old == rooms[h[t].rid].gameState
              new == rooms'[h[t].rid].gameState
          IN /\ new.currentRound = old.currentRound + 1
             /\ new.roundHistory = old.roundHistory
             /\ new.currentRoundEvents = old.currentRoundEvents
             /\ new.players = old.players
             /\ new = [old EXCEPT !.currentRound = @ + 1]
             /\ rooms'[h[t].rid] = [rooms[h[t].rid] EXCEPT !.gameState = new]]_vars

\* C22, its case: the host has closed the first round, which had no event.
C22_Witness ==
  /\ h[Req(1)].op = "nextRound" /\ h[Req(1)].pc = "done" /\ h[Req(1)].res = "ok"
  /\ rooms[1] # NoRoom
  /\ Len(rooms[1].gameState.players) = 3
  /\ rooms[1].gameState.currentRound = 2
  /\ rooms[1].gameState.roundHistory = <<>>

\* C23: in the host scenario the save of a nextRound on a room whose open
\* round has events adds every player's currentRoundScore to totalScore and
\* sets it to 0, appends one RoundRecord with the old currentRound as
\* roundNumber, the events of the open round and the round scores before
\* the settlement, empties currentRoundEvents and raises currentRound by 1.
C23_RoundSettlement ==
  [][\A t \in Tasks :
       Saves(t, "nextRound") /\ Len(rooms[h[t].rid].gameState.currentRoundEvents) > 0
       => LET old == rooms[h[t].rid].gameState
              new == rooms'[h[t].rid].gameState
          IN /\ Len(new.players) = Len(old.players)
             /\ \A i \in 1..Len(old.players) :
                  /\ new.players[i].id = old.players[i].id
                  /\ new.players[i].totalScore
                       = old.players[i].totalScore + old.players[i].currentRoundScore
                  /\ new.players[i].currentRoundScore = 0
             /\ Len(new.roundHistory) = Len(old.roundHistory) + 1
             /\ SubSeq(new.roundHistory, 1, Len(old.roundHistory)) = old.roundHistory
             /\ LET rec == new.roundHistory[Len(new.roundHistory)]
                IN /\ rec.roundNumber = old.currentRound
                   /\ rec.events = old.currentRoundEvents
                   /\ Len(rec.finalScores) = Len(old.players)
                   /\ \A i \in 1..Len(old.players) :
                        /\ rec.finalScores[i].playerId = old.players[i].id
                        /\ rec.finalScores[i].score = old.players[i].currentRoundScore
             /\ new.currentRoundEvents = <<>>
             /\ new.currentRound = old.currentRound + 1]_vars

\* C23, its case: the host has closed the second round, in which EventA was
\* recorded: user 1 has a total of 2, user 2 of -2.
C23_Witness ==
  /\ h[Req(1)].op = "nextRound" /\ h[Req(1)].pc = "done" /\ h[Req(1)].res = "ok"
  /\ rooms[1] # NoRoom
  /\ rooms[1].gameState.currentRound = 3
  /\ Len(rooms[1].gameState.roundHistory) = 1
  /\ rooms[1].gameState.roundHistory[1].events = <<EventA>>
  /\ rooms[1].gameState.players[1].totalScore = 2
  /\ rooms[1].gameState.players[2].totalScore = 0 - 2

\* C29: in the host scenario the save of a settleGame on a room that is not
\* finished stores a finished game in which every player's totalScore has
\* taken in the currentRoundScore, now 0, and whose settlementResult is the
\* debt netting of the new totals at the pricePerFan of the room.
C29_SettleGameFinishes ==
  [][\A t \in Tasks :
       Saves(t, "settleGame") /\ ~rooms[h[t].rid].gameState.isGameFinished
       => LET old == rooms[h[t].rid].gameState
              new == rooms'[h[t].rid].gameState
          IN /\ new.isGameFinished
             /\ Len(new.players) = Len(old.players)
             /\ \A i \in 1..Len(old.players) :
                  /\ new.players[i].totalScore
                       = old.players[i].totalScore + old.players[i].currentRoundScore
                  /\ new.players[i].currentRoundScore = 0
             /\ new.settlementResult
                  = calculateServerSettlement(new.players, old.settings.pricePerFan)]_vars

\* C29, its case: the host has settled the game with EventC in the open
\* round and EventA in a closed one: the totals are 0, -4 and 4, and user 2
\* pays 4 to user 3.
C29_Witness ==
  /\ h[Req(1)].op = "settleGame" /\ h[Req(1)].pc = "done" /\ h[Req(1)].res = "ok"
  /\ rooms[1] # NoRoom
  /\ rooms[1].gameState.isGameFinished
  /\ rooms[1].gameState.players[2].totalScore = 0 - 4
  /\ rooms[1].gameState.players[3].totalScore = 4
  /\ rooms[1].gameState.settlementResult = <<[from |-> 2, to |-> 3, pay |-> 4]>>

\* C25: the archive written when a room with game activity is disbanded
\* holds in gameHistory every closed round and, after them, a record of the
\* open round with its events when it has any; and it lists every player of
\* the game with a finalScore of totalScore plus currentRoundScore.
C25_ArchiveHoldsOpenRound ==
  [][\A t \in Tasks :
       (/\ h[t].pc = "end_read" /\ h[t].room # NoRoom
        /\ archives'[h[t].rid] # archives[h[t].rid])
       => LET gs == h[t].room.gameState
              a == archives'[h[t].rid]
              open == IF Len(gs.currentRoundEvents) > 0 THEN 1 ELSE 0
          IN /\ Len(a.gameHistory) = Len(gs.roundHistory) + open
             /\ \A i \in 1..Len(gs.roundHistory) :
                  /\ a.gameHistory[i].round = gs.roundHistory[i].roundNumber
                  /\ a.gameHistory[i].events = gs.roundHistory[i].events
             /\ open = 1 => a.gameHistory[Len(a.gameHistory)].events = gs.currentRoundEvents
             /\ \A i \in 1..Len(gs.players) :
                  \E j \in 1..Len(a.players) :
                    /\ a.players[j].userId = gs.players[i].id
                    /\ a.players[j].finalScore
                         = gs.players[i].totalScore + gs.players[i].currentRoundScore]_vars

\* the intents of the gateway that are answered by a push
PushIntents ==
  {"createRoom", "joinRoom", "leaveRoom", "startGame", "addGameEvent",
   "nextRound", "settleGame", "endGame", "kickPlayer"}

\* C26: the handler of an intent never returns without having pushed a
\* roomStateUpdate, a roomEnded or an error to the socket that sent it.
C26_InitiatorAlwaysAnswered ==
  \A c \in Conns :
    h[Req(c)].pc = "done" /\ h[Req(c)].op \in PushIntents
    => Pushed(h[Req(c)].op, h[Req(c)].res) \in {"roomStateUpdate", "roomEnded", "error"}

\* C28: the save of a createRoom handler stores the new room under an id
\* that no stored room has at that moment, also when another createRoom is
\* between its uniqueness check and its save; the room has the creator as
\* its only seat, connected, and as host, and a game state without players,
\* events or history at round 1; the next step of the handler sets the
\* creator's currentRoomId to the id.
C28_CreateNeverOverwrites ==
  [][\A t \in Tasks :
       /\ (h[t].op = "createRoom" /\ h[t].pc = "cr_gen" /\ h'[t].pc = "cr_save")
          => LET c == ConnOf(t)
                 id == h[t].rid
                 room == rooms'[id]
             IN /\ rooms[id] = NoRoom
                /\ room.id = id
                /\ room.hostUserId = UserOf(c)
                /\ Len(room.players) = 1
                /\ room.players[1].id = c
                /\ room.players[1].userId = UserOf(c)
                /\ room.players[1].isConnected
                /\ room.gameState = getDefaultGameState
       /\ (h[t].op = "createRoom" /\ h[t].pc = "cr_save" /\ h'[t].pc = "cr_user")
          => users'[UserOf(ConnOf(t))] = h[t].rid]_vars

\* the game of room 1, once settled, and its netting
Settled == rooms[1] # NoRoom /\ rooms[1].gameState.isGameFinished
Netting == rooms[1].gameState.settlementResult
TotalOf(i) == rooms[1].gameState.players[i].totalScore
Price == rooms[1].gameState.settings.pricePerFan

\* what `name` has paid, and has been paid, in the first n instructions
RECURSIVE PaidFrom(_, _, _)
PaidFrom(r, n, name) ==
  IF n = 0 THEN 0
  ELSE PaidFrom(r, n - 1, name) + (IF r[n].from = name THEN r[n].pay ELSE 0)

RECURSIVE PaidTo(_, _, _)
PaidTo(r, n, name) ==
  IF n = 0 THEN 0
  ELSE PaidTo(r, n - 1, name) + (IF r[n].to = name THEN r[n].pay ELSE 0)

\* C24, as the specification states it: the netting of the totals 30, 10,
\* -25, -15 at price 1 has exactly two instructions, which sum to 40 and are
\* all positive.
C24_TwoTransfers ==
  (Settled /\ Price = 1
   /\ <<TotalOf(1), TotalOf(2), TotalOf(3), TotalOf(4)>> = <<30, 10, 0 - 25, 0 - 15>>)
  => /\ Len(Netting) = 2
     /\ PaidTo(Netting, Len(Netting), 1) + PaidTo(Netting, Len(Netting), 2) = 40
     /\ \A k \in 1..Len(Netting) : Netting[k].pay > 0

\* C24, amended: the netting of the totals 30, 10, -25, -15 at price 1 has
\* exactly three instructions, 25 from the third player to the first, 5
\* from the fourth to the first and 10 from the fourth to the second; they
\* sum to 40 and are all positive.
C24_ThreeTransfers ==
  (Settled /\ Price = 1
   /\ <<TotalOf(1), TotalOf(2), TotalOf(3), TotalOf(4)>> = <<30, 10, 0 - 25, 0 - 15>>)
  => /\ Netting = <<[from |-> 3, to |-> 1, pay |-> 25],
                    [from |-> 4, to |-> 1, pay |-> 5],
                    [from |-> 4, to |-> 2, pay |-> 10]>>
     /\ PaidTo(Netting, Len(Netting), 1) + PaidTo(Netting, Len(Netting), 2) = 40
     /\ \A k \in 1..Len(Netting) : Netting[k].pay > 0

\* C24, its case: the game with the totals 30, 10, -25, -15 and price 1 has
\* been settled.
C24_Witness ==
  /\ Settled /\ Price = 1
  /\ TotalOf(1) = 30 /\ TotalOf(2) = 10 /\ TotalOf(3) = 0 - 25 /\ TotalOf(4) = 0 - 15
  /\ h[Req(1)].pc = "done"

\* C30: for totals that sum to 0 and a positive whole price the netting
\* settles every balance: what a loser pays sums to its debt, what a winner
\* is paid to its credit, a player with total 0 pays and is paid nothing;
\* every amount is positive and is the smaller of what the payer still owes
\* and what the payee is still owed when it is issued; and the instructions
\* go through the losers in list order and, for one loser, through the
\* winners in list order.
C30_NettingSettlesAll ==
  (Settled /\ TotalOf(1) + TotalOf(2) + TotalOf(3) + TotalOf(4) = 0 /\ Price > 0)
  => LET r == Netting
         n == Len(r)
         Debt(i) == IF TotalOf(i) < 0 THEN (0 - TotalOf(i)) * Price ELSE 0
         Credit(i) == IF TotalOf(i) > 0 THEN TotalOf(i) * Price ELSE 0
     IN /\ \A i \in 1..MaxSeats :
             /\ PaidFrom(r, n, i) = Debt(i)
             /\ PaidTo(r, n, i) = Credit(i)
        /\ \A k \in 1..n :
             /\ r[k].pay > 0
             /\ r[k].from \in 1..MaxSeats /\ r[k].to \in 1..MaxSeats
             /\ r[k].pay = Min(Debt(r[k].from) - PaidFrom(r, k - 1, r[k].from),
                               Credit(r[k].to) - PaidTo(r, k - 1, r[k].to))
        /\ \A k \in 1..(n - 1) :
             \/ r[k].from < r[k + 1].from
             \/ r[k].from = r[k + 1].from /\ r[k].to < r[k + 1].to

\* C30, its case: a settled game at price 2 in which the first player, with
\* a total of 3, is paid by two losers.
C30_Witness ==
  /\ Settled /\ Price = 2
  /\ TotalOf(1) = 3 /\ TotalOf(2) = 0 - 1 /\ TotalOf(3) = 0 /\ TotalOf(4) = 0 - 2
  /\ Len(Netting) = 2
  /\ h[Req(1)].pc = "done"

\* C27: the room a handler emits as roomStateUpdate has been stored under
\* the id of the room before the step that emits it.
C27_BroadcastAfterWrite ==
  [][\A t \in Tasks :
       (h[t].pc # "done" /\ h'[t].pc = "done" /\ Broadcast(t) # NoRoom)
       => Broadcast(t) \in written[h[t].rid]]_vars

\* C27, its case: while the host's socket was closing, user 2 recorded an
\* event and user 4 joined the room, and the three handlers have sent their
\* roomStateUpdate.
C27_Witness ==
  /\ h[Disc(1)].op = "disconnect" /\ h[Disc(1)].pc = "done" /\ h[Disc(1)].res = "ok"
  /\ h[Req(2)].op = "addGameEvent" /\ h[Req(2)].pc = "done" /\ h[Req(2)].res = "ok"
  /\ h[Req(4)].op = "joinRoom" /\ h[Req(4)].pc = "done" /\ h[Req(4)].res = "ok"
  /\ rooms[1] # NoRoom
  /\ Cardinality(written[1]) >= 4

\* ====================================================== claims C31 .. C39

\* the step of endGameAndDeleteRoom that follows `await getRoom(id)`, taken
\* by handler t with a room in hand
DisbandDecides(t) ==
  /\ h[t].pc = "end_read"
  /\ h'[t] # h[t]
  /\ h[t].room # NoRoom

\* C31: a disband writes a GameArchive if and only if the game of the room it
\* read has an event in the open round or a closed round.  With neither, no
\* archive write is issued, the archive store is unchanged and the disband
\* goes on to clear the users; with either, one archive write is issued, and
\* where the store accepts it the archive of that room appears under the
\* room's id before the disband goes on.
C31_ArchiveIffStarted ==
  [][\A t \in Tasks :
       DisbandDecides(t) =>
         LET gs == h[t].room.gameState
             rid == h[t].rid
             played == Len(gs.currentRoundEvents) > 0 \/ Len(gs.roundHistory) > 0
         IN /\ played <=> calls'[rid].archive = calls[rid].archive + 1
            /\ ~played => /\ archives' = archives
                          /\ calls' = calls
                          /\ h'[t].pc = "end_users"
            /\ h'[t].pc \in {"end_archive", "end_users"} =>
                 (played <=> archives'[rid] # archives[rid])
            /\ played /\ archives[rid] = NoArchive =>
                 /\ archives'[rid] # NoArchive
                 /\ archives'[rid].id = h[t].room.id
                 /\ h'[t].pc = "end_archive"]_vars

\* C31, its case: a disband has stored the archive of a game whose only
\* event is in the open round, and has deleted the room.
C31_Witness ==
  /\ archives[1] # NoArchive
  /\ Len(archives[1].gameHistory) = 0
  /\ rooms[1] = NoRoom
  /\ \E t \in Tasks : h[t].res = "disbanded" /\ h[t].pc = "done"

\* the event the step has applied (the one appended) or reversed (the one
\* deleted from the open round)
TouchedEvent ==
  IF local'.args.op = "removeEvent"
  THEN LET evs == local.gs.currentRoundEvents
       IN evs[CHOOSE i \in 1..Len(evs) : evs[i].id = local'.args.eventId]
  ELSE AddedEventOf

\* the ids the event names: the winner, the losers, the targets of a gang
NamedIn(e) == {e.winnerId} \cup Range(e.loserIds) \cup Range(e.gangTargetIds)

\* C32: applyEventToPlayers and reverseApplyEventToPlayers change nothing
\* but currentRoundScore.  Every step of the ledger that applies or reverses
\* an event keeps the player list's length and order and every field of every
\* player other than currentRoundScore (id, totalScore), and a player that is
\* neither the winner nor a named loser or target keeps currentRoundScore.
C32_OnlyRoundScoreChanges ==
  [][local'.gs # local.gs
     => LET e == TouchedEvent
            before == local.gs.players
            after == local'.gs.players
        IN /\ Len(after) = Len(before)
           /\ \A i \in 1..Len(before) :
                /\ after[i].id = before[i].id
                /\ after[i].totalScore = before[i].totalScore
                /\ [after[i] EXCEPT !.currentRoundScore = before[i].currentRoundScore]
                     = before[i]
                /\ before[i].id \notin NamedIn(e) => Delta(i) = 0]_vars

\* C32, its case: with totals 3, -1, 0, -2 from earlier rounds, a first
\* event was applied and then a discard win, and the first event has been
\* reversed: the winner of the discard win carries a round score, player 3
\* has none, and the totals are the ones the round started with.
C32_Witness ==
  /\ local # NoGs
  /\ local.args.op = "removeEvent" /\ local.args.eventId = 1
  /\ Len(local.gs.currentRoundEvents) = 1
  /\ local.gs.currentRoundEvents[1].type = "dian_pao_hu"
  /\ local.gs.players[local.gs.currentRoundEvents[1].winnerId].currentRoundScore > 0
  /\ local.gs.players[3].currentRoundScore = 0
  /\ local.gs.players[1].totalScore = 3
  /\ local.gs.players[2].totalScore = 0 - 1

\* the handler of socket c has completed a reconnect of its user to room rid
Reconnected(c, rid) ==
  /\ h[Req(c)].pc = "done"
  /\ h[Req(c)].op \in {"joinRoom", "authenticate"}
  /\ h[Req(c)].res = "ok"
  /\ h[Req(c)].rid = rid

\* C33: a user seated under connection id old reconnects with connection id
\* new, and the socket of old closes.  Once the reconnect handler and the
\* disconnect handler of old have both completed, in whatever order their
\* steps were taken, the room is stored and the user's seat in it carries
\* the id new and is connected.
C33_ReconnectOutlivesOldSocket ==
  \A old \in Conns, new \in Conns, rid \in RoomIds :
    /\ old # new
    /\ UserOf(old) = UserOf(new)
    /\ Reconnected(new, rid)
    /\ h[Disc(old)].pc = "done"
    /\ h[Disc(old)].rid = rid
    /\ alive[new]
    => /\ rooms[rid] # NoRoom
       /\ \E i \in 1..Len(rooms[rid].players) :
            /\ rooms[rid].players[i].userId = UserOf(new)
            /\ rooms[rid].players[i].id = new
            /\ rooms[rid].players[i].isConnected

\* C34: whenever no handler is in flight, operations having run one at a
\* time, seating and the users' currentRoomId agree: every seat of a stored
\* room belongs to a user whose currentRoomId is the id of that room, and a
\* user whose currentRoomId is r is seated in the stored room r; so no user
\* is seated in two rooms.
C34_SeatsAgreeWithUsers ==
  NoneInFlight =>
    /\ \A r \in RoomIds :
         rooms[r] # NoRoom =>
           \A i \in 1..Len(rooms[r].players) : users[rooms[r].players[i].userId] = r
    /\ \A u \in Users :
         users[u] # NoRoomId =>
           /\ rooms[users[u]] # NoRoom
           /\ HasUser(rooms[users[u]], u)

\* C35: every stored room has at least one seat, and its hostUserId is the
\* permanent user id of one of its seats, in every state of every
\* interleaving of the lobby operations.
C35_HostIsSeated ==
  \A r \in RoomIds :
    rooms[r] # NoRoom =>
      /\ Len(rooms[r].players) >= 1
      /\ \E i \in 1..Len(rooms[r].players) :
           rooms[r].players[i].userId = rooms[r].hostUserId

\* C35, its case: the host has left room 1, user 2 has left after it, and
\* the room is stored with the one seat that remains, which is the host.
C35_Witness ==
  /\ h[Req(1)].op = "leaveRoom" /\ h[Req(1)].pc = "done" /\ h[Req(1)].res = "ok"
  /\ h[Req(2)].op = "leaveRoom" /\ h[Req(2)].pc = "done" /\ h[Req(2)].res = "ok"
  /\ rooms[1] # NoRoom
  /\ Len(rooms[1].players) = 1
  /\ rooms[1].hostUserId = 3

\* C36: whenever no handler is in flight, operations having run one at a
\* time, every stored room has a seat that is connected: a room whose seats
\* are all disconnected is not in storage.
C36_NoZombieRoom ==
  NoneInFlight =>
    \A r \in RoomIds :
      rooms[r] # NoRoom =>
        \E i \in 1..Len(rooms[r].players) : rooms[r].players[i].isConnected

\* the score a RoundRecord holds for player pid (0 when it holds none)
RECURSIVE ScoreIn(_, _)
ScoreIn(finalScores, pid) ==
  IF finalScores = <<>> THEN 0
  ELSE (IF Head(finalScores).playerId = pid THEN Head(finalScores).score ELSE 0)
       + ScoreIn(Tail(finalScores), pid)

\* the sum of a player's finalScores over the RoundRecords of a history
RECURSIVE HistoryTotal(_, _)
HistoryTotal(hist, pid) ==
  IF hist = <<>> THEN 0
  ELSE ScoreIn(Head(hist).finalScores, pid) + HistoryTotal(Tail(hist), pid)

\* the ledger of a game state agrees with its history
LedgerMatchesHistory(gs) ==
  /\ \A i \in 1..Len(gs.players) :
       gs.players[i].totalScore = HistoryTotal(gs.roundHistory, gs.players[i].id)
  /\ \A i \in 1..Len(gs.roundHistory) :
       /\ gs.roundHistory[i].roundNumber < gs.currentRound
       /\ \A j \in 1..(i - 1) :
            gs.roundHistory[j].roundNumber < gs.roundHistory[i].roundNumber

\* C37: in every state of a stored room, every scored player's totalScore is
\* the sum of that player's finalScores over the RoundRecords of
\* roundHistory, the roundNumbers are strictly increasing and below
\* currentRound; and every step leaves the RoundRecords a stored room had
\* as the first records of its roundHistory.
C37_LedgerMatchesHistory ==
  [][\A r \in RoomIds :
       rooms'[r] # NoRoom =>
         /\ LedgerMatchesHistory(rooms'[r].gameState)
         /\ rooms[r] # NoRoom =>
              LET old == rooms[r].gameState.roundHistory
                  new == rooms'[r].gameState.roundHistory
              IN /\ Len(new) >= Len(old)
                 /\ SubSeq(new, 1, Len(old)) = old]_vars

\* C38: once a stored room's game is finished it stays finished for as long
\* as the room is stored, and after every step the stored settlementResult
\* is the debt netting of the players' totalScore values of that state.
C38_FinishedIsStable ==
  [][\A r \in RoomIds :
       (/\ rooms[r] # NoRoom
        /\ rooms[r].gameState.isGameFinished
        /\ rooms'[r] # NoRoom)
       => /\ rooms'[r].gameState.isGameFinished
          /\ rooms'[r].gameState.settlementResult
               = calculateServerSettlement(rooms'[r].gameState.players,
                                           rooms'[r].gameState.settings.pricePerFan)]_vars

\* C39: when the endGame handler of the host has gone through
\* endGameAndDeleteRoom and completed, the room is no longer stored and no
\* user has it as currentRoomId, whether or not the archive store already
\* held a record under the room's id.
C39_DisbandAlwaysDeletes ==
  \A c \in Conns :
    (/\ h[Req(c)].op = "endGame"
     /\ h[Req(c)].pc = "done"
     /\ h[Req(c)].res \in EndOutcomes)
    => /\ rooms[h[Req(c)].rid] = NoRoom
       /\ \A u \in Users : users[u] # h[Req(c)].rid

====
